---- MODULE Spec2Model ----
(***************************************************************************)
(* Authenticated HTTP request/retry core of the MindsDB JavaScript SDK.    *)
(*                                                                         *)
(* The SDK is single-threaded and asynchronous: code runs to completion    *)
(* between two network I/O boundaries.  One action of this model is one    *)
(* such run: a call of the public API up to its first request, or the      *)
(* arrival of a server answer up to the next request or to the result      *)
(* the caller observes.  Strings are sequences of atoms (delimiters and    *)
(* indivisible text chunks) so that split, trim and string templates are   *)
(* computed, not assumed.                                                  *)
(*                                                                         *)
(* Spec follows one caller from module construction on, through connect,  *)
(* SQL.runQuery and Projects.getAllProjects; SpecConcurrent follows two    *)
(* callers whose calls overlap on a connected SDK; SpecFunctions applies   *)
(* the SDK's pure functions (cookie parsing, query result shaping, error   *)
(* conversion, the resource clients' statement generation and their        *)
(* handling of a query result, the skills of an agent update) to bounded   *)
(* inputs; SpecJob follows the calls made on one Job object.               *)
(***************************************************************************)
EXTENDS Integers, Sequences, FiniteSets, TLC

\* ------------------------------------------------------------------ bounds
\* Requests pending at once within one call (a failed request, the login sent
\* for it, the login sent for that login's failure, ...).
MaxDepth == 4
\* Calls of connect, each of which installs one more retry interceptor.
MaxInterceptors == 2

\* ------------------------------------------------------- program constants
Unauthorized == 401
Forbidden == 403
NotFound == 404
Ok == 200
InternalServerError == 500
BadRequest == 400
TooManyRequests == 429
RequestTimeout == 408
GatewayTimeout == 504
BadGateway == 502
ServiceUnavailable == 503

BASE_CLOUD_API_ENDPOINT == <<"https://", "cloud.", "mindsdb.com">>
BASE_LOGIN_URI == <<"/cloud/login">>
BASE_MANAGED_LOGIN_URI == <<"/api/login">>
BASE_SQL_URI == <<"/api/sql/query">>
BASE_PROJECTS_URI == <<"/api/projects">>

\* -------------------------------------------------------- values and strings
\* A JavaScript value that may be undefined.
Undefined == [def |-> FALSE, val |-> <<>>]
Some(s) == [def |-> TRUE, val |-> s]

\* JavaScript truthiness of a string | undefined: undefined and '' are falsy.
Truthy(v) == v.def /\ v.val # <<>>

\* String.prototype.includes for a one-atom needle.
Includes(s, atom) == \E i \in 1..Len(s) : s[i] = atom

\* String.prototype.split(d) for a one-atom separator: the pieces between
\* the occurrences of d (one piece more than there are separators).
RECURSIVE Split(_, _)
Split(s, d) ==
  IF \A i \in 1..Len(s) : s[i] # d
    THEN <<s>>
    ELSE LET k == CHOOSE i \in 1..Len(s) :
                    s[i] = d /\ \A j \in 1..(i - 1) : s[j] # d
         IN  <<SubSeq(s, 1, k - 1)>> \o Split(SubSeq(s, k + 1, Len(s)), d)

\* String.prototype.trim: drops leading and trailing blanks.
RECURSIVE Trim(_)
Trim(s) ==
  IF s = <<>> THEN s
  ELSE IF s[1] = " " THEN Trim(Tail(s))
  ELSE IF s[Len(s)] = " " THEN Trim(SubSeq(s, 1, Len(s) - 1))
  ELSE s

\* Array index that yields undefined past the end.
At(arr, i) == IF i \in 1..Len(arr) THEN Some(arr[i]) ELSE Undefined

\* getCookieValue(allCookies, cookieKey): the second '='-piece of the first
\* ';'-component of the first header whose first '='-piece is the key.
RECURSIVE getCookieValue(_, _)
getCookieValue(allCookies, cookieKey) ==
  IF allCookies = <<>> THEN Undefined
  ELSE LET components == Split(allCookies[1], ";")
           keysAndValues == [c \in 1..Len(components) |->
                               Split(Trim(components[c]), "=")]
       IN  IF keysAndValues[1][1] = cookieKey
             THEN At(keysAndValues[1], 2)
             ELSE getCookieValue(Tail(allCookies), cookieKey)

\* The template literal `session=${session}`; undefined prints as 'undefined'.
SessionCookie(session) ==
  <<"session", "=">> \o (IF session.def THEN session.val ELSE <<"undefined">>)

\* JavaScript `a || b` for a string | undefined.
OrElse(v, d) == IF Truthy(v) THEN v.val ELSE d

\* ------------------------------------------------------------ input domains
\* Spec follows the calls of one caller, made one after the other.
Procs == {"c1"}

CUSTOM_HOST == <<"https://", "test-url.com">>
LOCAL_HOST == <<"http://", "127.0.0.1", ":47334">>
\* options.host: absent, a custom host, a self-hosted local instance.
HostOptions == {Undefined, Some(CUSTOM_HOST), Some(LOCAL_HOST)}

\* options.user / options.password / options.managed of connect.
CredOptions ==
  { [user |-> <<"alice">>, password |-> <<"pw-a">>, managed |-> FALSE],
    [user |-> <<"bob">>, password |-> <<"pw-b">>, managed |-> TRUE] }

Statements == { <<"SELECT 1">> }

\* Set-Cookie header lists a server may put on a response.
CookieLists ==
  { <<>>,
    << <<"session", "=", "t1", ";", " ", "Domain", "=", ".mindsdb.com">> >>,
    << <<"unrelated", "=", "v">>, <<"session", "=", "t2">> >>,
    << <<"session", "=">> >> }

\* Status codes a server may answer with; NoResponse stands for a request
\* that got no response at all (network failure, timeout).
NoResponse == 0
Statuses == {Ok, Unauthorized, Forbidden, NotFound, InternalServerError}

\* ------------------------------------------------------- requests, outcomes
\* An axios request configuration.  sends is bookkeeping: how many times
\* this request has been handed to the transport.
NoConfig ==
  [kind |-> "none", method |-> "", url |-> <<>>, data |-> <<>>,
   cookie |-> Undefined, retried |-> FALSE, sends |-> 0]

\* getBaseRequestConfig(authenticator): the Cookie header, present only
\* when the session is truthy.
getBaseRequestConfig(session) ==
  IF Truthy(session) THEN Some(SessionCookie(session)) ELSE Undefined

\* new URL(path, base) for an absolute path on a path-less base.
URL(path, base) == base \o path

\* SqlRestApiClient.runQuery: client.post(queryUrl, {query}, baseConfig).
QueryConfig(query, base, session) ==
  [kind |-> "data", method |-> "POST", url |-> URL(BASE_SQL_URI, base),
   data |-> <<"query">> \o query,
   cookie |-> getBaseRequestConfig(session), retried |-> FALSE, sends |-> 0]

\* ProjectsRestApiClient.getAllProjects: client.get(projectsUrl, baseConfig).
ProjectsConfig(base, session) ==
  [kind |-> "data", method |-> "GET", url |-> URL(BASE_PROJECTS_URI, base),
   data |-> <<>>,
   cookie |-> getBaseRequestConfig(session), retried |-> FALSE, sends |-> 0]

\* HttpAuthenticator.authenticate: axiosClient.post(loginURL.href, body),
\* without a request configuration.
\* (variant: always the Cloud login path)
LoginConfigCloudPath(user, password, managed, base) ==
  [kind |-> "login", method |-> "POST", url |-> URL(BASE_LOGIN_URI, base),
   data |-> <<"email">> \o user \o <<"username">> \o user
            \o <<"password">> \o password,
   cookie |-> Undefined, retried |-> FALSE, sends |-> 0]
LoginConfig(user, password, managed, base) ==
  [kind |-> "login", method |-> "POST",
   url |-> URL(IF managed THEN BASE_MANAGED_LOGIN_URI ELSE BASE_LOGIN_URI,
               base),
   data |-> <<"email">> \o user \o <<"username">> \o user
            \o <<"password">> \o password,
   cookie |-> Undefined, retried |-> FALSE, sends |-> 0]

\* What a request settles with: a response (its status, Set-Cookie headers
\* and data) or an error (whether it is an AxiosError, the configuration,
\* request and response status it holds, its name and message).
NoOutcome ==
  [t |-> "none", cfg |-> NoConfig, status |-> NoResponse, cookies |-> <<>>,
   data |-> Undefined, axios |-> FALSE, request |-> FALSE, name |-> <<>>,
   message |-> <<>>]
Response(cfg, status, cookies) ==
  [NoOutcome EXCEPT !.t = "resp", !.cfg = cfg, !.status = status,
                    !.cookies = cookies]

\* The AxiosError of a request that was made: axios' message for a response
\* with an error status, and for a request without response.
Error(cfg, status) ==
  [NoOutcome EXCEPT
     !.t = "err", !.cfg = cfg, !.status = status, !.axios = TRUE,
     !.request = TRUE, !.name = <<"AxiosError">>,
     !.message = IF status = NoResponse THEN <<"Network Error">>
                 ELSE <<"Request failed with status code ",
                        ToString(status)>>]

\* An AxiosError raised before the request was made: it holds the request
\* configuration, or not even that.
SetupError(cfg) ==
  [Error(cfg, NoResponse) EXCEPT
     !.request = FALSE, !.message = <<"Unsupported protocol">>]

\* An Error that is not an AxiosError, thrown while the request was handled.
ThrownError ==
  [NoOutcome EXCEPT !.t = "err", !.name = <<"Error">>,
                    !.message = <<"Network Error">>]

\* ------------------------------------------------------------------- state
VARIABLES
  session,       \* HttpAuthenticator.session: string | undefined
  user,          \* HttpAuthenticator.user
  password,      \* HttpAuthenticator.password
  managed,       \* HttpAuthenticator.managed
  baseURL,       \* httpClient.defaults.baseURL
  interceptors,  \* number of response interceptors installed on the client
  op,            \* per caller: "idle", "query", "projects", "connect"
                 \* or "done"
  stack,         \* per caller: the pending requests of its call, outermost
                 \* first; the last one is in flight
  result,        \* per caller: what the finished call gave the caller
  logins,        \* bookkeeping: login requests sent during the current call
  calls,         \* bookkeeping: all requests sent during the current call
  all401,        \* bookkeeping: every answer of the current call was 401
  everSet,       \* bookkeeping: the session has been truthy at some time
  atCall,        \* bookkeeping: what the current call was given and found
  calc,          \* a call of one of the SDK's pure functions: its input and,
                 \* once it has run, its output
  ev             \* bookkeeping: what the latest run did, under its caller

vars == <<session, user, password, managed, baseURL, interceptors, op, stack,
          result, logins, calls, all401, everSet, atCall, calc, ev>>

\* The variables of the request machine.
machine == <<session, user, password, managed, baseURL, interceptors, op,
             stack, result, logins, calls, all401, everSet, atCall, ev>>

\* ------------------------------------------------- one run of the event loop
\* A pending request: its configuration, the number n of response
\* interceptors chained behind it, the stage it is at (0 in flight, i the
\* i-th interceptor, n + 1 settled), its current outcome, and what the
\* interceptor at work is awaiting ("login", "replay" or nothing).
Frame(cfg, n) ==
  [cfg |-> cfg, n |-> n, stage |-> 0, out |-> NoOutcome, wait |-> "none",
   loginsAtCall |-> 0]

Top(m) == m.stk[Len(m.stk)]
SetTop(m, f) == [m EXCEPT !.stk[Len(m.stk)] = f]
Log(m, event) == [m EXCEPT !.ev = Append(@, event)]

\* client.request(cfg) / client.post(...): hands the request to the
\* transport behind the interceptors installed at that moment.
Dispatch(m, cfg, replay, orig, relogin) ==
  LET sent == [cfg EXCEPT !.sends = @ + 1]
      m1 == [m EXCEPT !.stk = Append(@, Frame(sent, m.n)),
                      !.calls = @ + 1,
                      !.logins = IF cfg.kind = "login" THEN @ + 1 ELSE @]
  IN  Log(m1, [e |-> "send", cfg |-> sent, session |-> m.session,
               replay |-> replay, orig |-> orig, relogin |-> relogin])

\* HttpAuthenticator.authenticate up to its await: stores the credentials
\* and posts the login request.
authenticate(m, u, pw, mg) ==
  Dispatch([m EXCEPT !.user = u, !.password = pw, !.managed = mg],
           LoginConfig(u, pw, mg, m.base), FALSE, NoConfig, Undefined)

\* HttpAuthenticator.handleReauthentication, its two early returns: TRUE
\* when neither is taken, i.e. a login is to be sent.
\* (variants: one without the session test, one without the status test)
ReauthenticationWithoutSession(sess, error) ==
  /\ error.status # NoResponse
  /\ error.status \in {Unauthorized, Forbidden}
ReauthenticationOnAnyStatus(sess, error) ==
  /\ Truthy(sess)
  /\ error.status # NoResponse
ReauthenticationNeeded(sess, error) ==
  /\ Truthy(sess)
  /\ error.status # NoResponse
  /\ error.status \in {Unauthorized, Forbidden}

\* retryUnauthenticatedRequest, `throw error`: the interceptor rejects with
\* the error it was given.
\* (variant: throws a new error that lost the response)
RethrowWithoutResponse(m) ==
  LET f == Top(m)
      thrown == Error(f.out.cfg, NoResponse)
  IN  Log(SetTop(m, [f EXCEPT !.stage = @ + 1, !.out = thrown]),
          [e |-> "retry", res |-> "throw", errIn |-> f.out, errOut |-> thrown,
           sessionSet |-> Truthy(m.session)])
Rethrow(m) ==
  LET f == Top(m)
  IN  Log(SetTop(m, [f EXCEPT !.stage = @ + 1]),
          [e |-> "retry", res |-> "throw", errIn |-> f.out, errOut |-> f.out,
           sessionSet |-> Truthy(m.session)])

\* retryUnauthenticatedRequest up to its first await, for the error that
\* reached the interceptor of the top request.
\* (variant: replays at once, without a login of its own, when the session
\* is no longer the one the failed request was sent with)
retryReusingFreshSession(m) ==
  LET f == Top(m)
      error == f.out
      hr == [e |-> "hr", error |-> error,
             sessionSet |-> Truthy(m.session), everSet |-> m.everSet,
             sessionBefore |-> m.session,
             credsBefore |-> <<m.user, m.password, m.managed>>]
      cfg == [error.cfg EXCEPT !.cookie = Some(SessionCookie(m.session)),
                               !.retried = TRUE]
  IN  IF error.cfg.kind = "none" THEN Rethrow(m)
      ELSE IF error.cfg.retried THEN Rethrow(m)
      ELSE IF ~ReauthenticationNeeded(m.session, error)
        THEN Rethrow(Log(m, hr @@ [ret |-> "false", session |-> m.session,
                          creds |-> <<m.user, m.password, m.managed>>]))
      ELSE IF Len(m.stk) >= MaxDepth THEN [m EXCEPT !.overflow = TRUE]
      ELSE IF error.cfg.cookie # Some(SessionCookie(m.session))
        THEN Dispatch(Log(SetTop(m, [f EXCEPT !.wait = "replay",
                                              !.out.cfg = cfg]),
                          hr @@ [ret |-> "false", session |-> m.session,
                                 creds |-> <<m.user, m.password, m.managed>>]),
                      cfg, TRUE, error.cfg, m.session)
      ELSE authenticate(
             Log(SetTop(m, [f EXCEPT !.wait = "login",
                                     !.loginsAtCall = m.logins]),
                 hr @@ [ret |-> "login"]),
             m.user, m.password, m.managed)
retryUnauthenticatedRequest(m) ==
  LET f == Top(m)
      error == f.out
      hr == [e |-> "hr", error |-> error,
             sessionSet |-> Truthy(m.session), everSet |-> m.everSet,
             sessionBefore |-> m.session,
             credsBefore |-> <<m.user, m.password, m.managed>>]
  IN  IF error.cfg.kind = "none" THEN Rethrow(m)
      ELSE IF error.cfg.retried THEN Rethrow(m)
      ELSE IF ~ReauthenticationNeeded(m.session, error)
        THEN Rethrow(Log(m, hr @@ [ret |-> "false", session |-> m.session,
                          creds |-> <<m.user, m.password, m.managed>>]))
      ELSE IF Len(m.stk) >= MaxDepth THEN [m EXCEPT !.overflow = TRUE]
      ELSE authenticate(
             Log(SetTop(m, [f EXCEPT !.wait = "login",
                                     !.loginsAtCall = m.logins]),
                 hr @@ [ret |-> "login"]),
             m.user, m.password, m.managed)

\* HttpAuthenticator.authenticate after its await: stores the session
\* cookie of the login response (undefined when there is none).
authenticated(m, response) ==
  LET sess == getCookieValue(response.cookies, <<"session">>)
  IN  [m EXCEPT !.session = sess, !.everSet = @ \/ Truthy(sess)]

\* retryUnauthenticatedRequest after handleReauthentication returned true:
\* the failed request's configuration gets the new Cookie header and the
\* one-shot marker.
\* (variants: one that leaves the marker unset, one that leaves the old header)
ReplayConfigUnmarked(cfg, sess) ==
  [cfg EXCEPT !.cookie = Some(SessionCookie(sess))]
ReplayConfigStaleCookie(cfg, sess) ==
  [cfg EXCEPT !.retried = TRUE]
ReplayConfig(cfg, sess) ==
  [cfg EXCEPT !.cookie = Some(SessionCookie(sess)), !.retried = TRUE]

\* The login awaited by handleReauthentication has settled (child is its
\* request, already removed from m).  On a response authenticate stores the
\* session cookie, handleReauthentication returns true and the interceptor
\* marks, re-cookies and replays the failed request; on an error the error
\* propagates out of the interceptor.
LoginSettled(m, child) ==
  LET f == Top(m)
  IN  IF child.out.t = "resp"
        THEN LET m1 == authenticated(m, child.out)
                 cfg == ReplayConfig(f.out.cfg, m1.session)
                 m2 == Log(m1, [e |-> "hr", ret |-> "true",
                                error |-> f.out,
                                direct |-> ~child.out.cfg.retried,
                                loginsSince |-> m.logins - f.loginsAtCall,
                                cookies |-> child.out.cookies,
                                session |-> m1.session])
                 m3 == SetTop(m2, [f EXCEPT !.wait = "replay",
                                            !.out.cfg = cfg])
             IN  Dispatch(m3, cfg, TRUE, f.out.cfg, m1.session)
        ELSE Log(SetTop(m, [f EXCEPT !.out = child.out, !.wait = "none",
                                     !.stage = @ + 1]),
                 [e |-> "hr", ret |-> "threw", error |-> f.out])

\* The replay returned by the interceptor has settled: its outcome is the
\* interceptor's outcome.
ReplaySettled(m, child) ==
  LET f == Top(m)
  IN  SetTop(m, [f EXCEPT !.out = child.out, !.wait = "none",
                          !.stage = @ + 1])

\* A run is over when a request is in flight, when the outermost request
\* has settled, or when the model's nesting bound is hit.
Suspended(m) ==
  \/ m.overflow
  \/ Top(m).stage = 0
  \/ Len(m.stk) = 1 /\ Top(m).stage = Top(m).n + 1

\* Runs the promise chain until the next network boundary.
RECURSIVE Run(_)
Run(m) ==
  IF Suspended(m) THEN m
  ELSE LET f == Top(m)
       IN  IF f.stage = f.n + 1
             THEN LET parent == [m EXCEPT !.stk = SubSeq(@, 1, Len(@) - 1)]
                  IN  IF Top(parent).wait = "login"
                        THEN Run(LoginSettled(parent, f))
                        ELSE Run(ReplaySettled(parent, f))
           ELSE IF f.out.t = "resp"
             THEN Run(SetTop(m, [f EXCEPT !.stage = @ + 1]))
           ELSE Run(retryUnauthenticatedRequest(m))

\* ------------------------------------------------------------------ actions
\* The state one caller's run works on.
Machine(p) ==
  [stk |-> stack[p], session |-> session, user |-> user,
   password |-> password, managed |-> managed, base |-> baseURL,
   n |-> interceptors, logins |-> logins[p], calls |-> calls[p],
   everSet |-> everSet, ev |-> <<>>, overflow |-> FALSE]

\* MindsDbError.getBaseAxiosErrorMessage(axiosError).
getBaseAxiosErrorMessage(axiosError) ==
  <<"Request failed with status code ",
    IF axiosError.status = NoResponse THEN "undefined"
    ELSE ToString(axiosError.status),
    ". ">>

\* new MindsDbError(message).
MindsDbError(message) == [name |-> "MindsDbError", message |-> message]
NoError == [name |-> "", message |-> <<>>]

\* The template `${error}` of an Error object: its name, ': ' and its
\* message.
MessageOf(error) == error.name \o <<": ">> \o error.message

\* MindsDbError.fromAxiosError(axiosError): a hint chosen by the status of
\* the response; without response, a fixed text when the request was made
\* and the error's own message otherwise.
fromAxiosError(axiosError) ==
  LET baseMsg == getBaseAxiosErrorMessage(axiosError)
      status == axiosError.status
  IN  IF status # NoResponse
        THEN MindsDbError(baseMsg \o
               ( CASE status = BadRequest ->
                        <<" MindsDB received an invalid request and can't process it.">>
                   [] status = Unauthorized ->
                        <<" Did you provide the right username and password to the 'connect' method before using the SDK?">>
                   [] status = Forbidden ->
                        <<" You don't have permission to access this resource. Did you provide the right username and password to the 'connect' method before using the SDK?">>
                   [] status = NotFound ->
                        <<" This MindsDB resource doesn't exist.">>
                   [] status = TooManyRequests ->
                        <<" The number of requests you sent has exceeded the MindsDB API limit. Please contact us to request a limit increase.">>
                   [] status \in {RequestTimeout, GatewayTimeout} ->
                        <<" The request took too long to complete. Please try again.">>
                   [] status \in {InternalServerError, BadGateway,
                                  ServiceUnavailable} ->
                        <<" Oops! Something went wrong on our end. Please try again.">>
                   [] OTHER -> <<" Full message: ">> \o axiosError.message ))
      ELSE IF axiosError.request
        THEN MindsDbError(<<"The request was made but no response was received. Something may be wrong on our end. Please try again.">>)
      ELSE MindsDbError(axiosError.message)

\* MindsDbError.fromHttpError(error, url).
fromHttpError(error, url) ==
  IF error.axios THEN fromAxiosError(error)
  ELSE MindsDbError(<<"Something went wrong handling HTTP POST request to ">>
                    \o url \o <<": ">> \o MessageOf(error))

NoResult ==
  [state |-> "none", out |-> NoOutcome, error |-> NoError, value |-> <<>>]

\* isMindsDbCloudEndpoint(url) and isLocalEndpoint(url).
isMindsDbCloudEndpoint(url) == Includes(url, "mindsdb.com")
isLocalEndpoint(url) == Includes(url, "localhost") \/ Includes(url, "127.0.0.1")

\* String.prototype.toLowerCase on the column names in use.
toLowerCase(name) ==
  CASE name = "ID" -> "id"
    [] name = "Name" -> "name"
    [] name = "MindsDB" -> "mindsdb"
    [] OTHER -> name

\* `row[colName] = rowVal` on an object: sets or overwrites one property.
\* A missing column name (undefined) is the property 'undefined'.
SetProperty(row, colName, rowVal) ==
  LET key == IF colName.def THEN colName.val ELSE "undefined"
  IN  [k \in DOMAIN row \cup {key} |-> IF k = key THEN rowVal ELSE row[k]]

\* The inner loop of makeQueryResult from index j on.
RECURSIVE FillRow(_, _, _, _)
FillRow(row, respColumnNames, rawRow, j) ==
  IF j > Len(rawRow) THEN row
  ELSE FillRow(SetProperty(row, At(respColumnNames, j), rawRow[j]),
               respColumnNames, rawRow, j + 1)

\* An empty object.
EmptyObject == [k \in {} |-> ""]

\* SqlRestApiClient.makeQueryResult(response).
\* (variant: keeps the column names as the server sent them)
makeQueryResultKeepingCase(response) ==
  LET respColumnNames == IF response.column_names.def
                           THEN response.column_names.val ELSE <<>>
      respData == IF response.data.def THEN response.data.val ELSE <<>>
  IN  [columnNames |-> respColumnNames,
       context |-> response.context,
       type |-> response.type,
       rows |-> [i \in 1..Len(respData) |->
                   FillRow(EmptyObject, respColumnNames, respData[i], 1)],
       error_message |-> response.error_message]
makeQueryResult(response) ==
  LET sent == IF response.column_names.def
                THEN response.column_names.val ELSE <<>>
      respColumnNames == [j \in 1..Len(sent) |-> toLowerCase(sent[j])]
      respData == IF response.data.def THEN response.data.val ELSE <<>>
  IN  [columnNames |-> respColumnNames,
       context |-> response.context,
       type |-> response.type,
       rows |-> [i \in 1..Len(respData) |->
                   FillRow(EmptyObject, respColumnNames, respData[i], 1)],
       error_message |-> response.error_message]

\* A JSON body as the SDK reads it: the five properties makeQueryResult
\* reads (all undefined on an array) and, for an array, its items.
ArrayBody(items) ==
  [column_names |-> Undefined, data |-> Undefined, type |-> Undefined,
   context |-> Undefined, error_message |-> Undefined, items |-> Some(items)]

\* What a call whose last request was answered with a response returns or
\* throws.  runQuery: makeQueryResult(queryResponse.data), which throws a
\* TypeError when the response has no data; getAllProjects: the data of the
\* response, or [] when it has none; connect: nothing.
Returns(kind, out) ==
  CASE kind = "query" /\ ~out.data.def ->
         [thrown |-> TRUE, value |-> <<>>,
          error |-> [ThrownError EXCEPT
                       !.name = <<"TypeError">>,
                       !.message = <<"Cannot read properties of undefined (reading 'column_names')">>]]
    [] kind = "query" /\ out.data.def ->
         [thrown |-> FALSE, value |-> makeQueryResult(out.data.val),
          error |-> NoOutcome]
    [] kind = "projects" ->
         [thrown |-> FALSE,
          value |-> IF out.data.def THEN out.data.val ELSE ArrayBody(<<>>),
          error |-> NoOutcome]
    [] OTHER -> [thrown |-> FALSE, value |-> <<>>, error |-> NoOutcome]

\* Variant of Settle without the catch block of connect and runQuery: a
\* failed call rejects with the error as it was thrown.
SettleWithoutCatch(p, m) ==
  LET out == Top(m).out
      m1 == IF op[p] = "connect" /\ out.t = "resp"
              THEN authenticated(m, out) ELSE m
      ret == Returns(op[p], out)
  IN  /\ session' = m1.session
      /\ everSet' = m1.everSet
      /\ op' = [op EXCEPT ![p] = "done"]
      /\ stack' = [stack EXCEPT ![p] = <<>>]
      /\ result' = [result EXCEPT ![p] =
                      [state |-> IF out.t = "err" THEN "AxiosError"
                                 ELSE IF ret.thrown THEN "TypeError"
                                 ELSE "resolved",
                       out |-> out,
                       error |-> NoError,
                       value |-> IF out.t = "resp" THEN ret.value
                                 ELSE <<>>]]

\* What the finished call of caller p hands to its caller.  runQuery
\* returns makeQueryResult of the response's data, getAllProjects the data
\* of the response or [], and both throw MindsDbError.fromHttpError(error,
\* url) for whatever was thrown inside their try block, by the request or
\* by makeQueryResult; connect stores the session cookie of the login
\* response and resolves, or throws MindsDbError.fromHttpError(error,
\* baseURL).
Settle(p, m) ==
  LET out == Top(m).out
      m1 == IF op[p] = "connect" /\ out.t = "resp"
              THEN authenticated(m, out) ELSE m
      url == IF op[p] = "connect" THEN m.base ELSE Top(m).cfg.url
      ret == Returns(op[p], out)
      thrown == out.t = "err" \/ ret.thrown
  IN  /\ session' = m1.session
      /\ everSet' = m1.everSet
      /\ op' = [op EXCEPT ![p] = "done"]
      /\ stack' = [stack EXCEPT ![p] = <<>>]
      /\ result' = [result EXCEPT ![p] =
                      [state |-> IF thrown THEN "MindsDbError"
                                 ELSE "resolved",
                       out |-> out,
                       error |-> IF out.t = "err"
                                   THEN fromHttpError(out, url)
                                 ELSE IF ret.thrown
                                   THEN fromHttpError(ret.error, url)
                                 ELSE NoError,
                       value |-> IF thrown THEN <<>> ELSE ret.value]]

\* Writes back the state a run of caller p ended in; running is the kind of
\* call ("query", "projects" or "connect") the caller is in while it is
\* not finished.
Store(p, m, running) ==
  /\ ~m.overflow
  /\ user' = m.user
  /\ password' = m.password
  /\ managed' = m.managed
  /\ logins' = [logins EXCEPT ![p] = m.logins]
  /\ calls' = [calls EXCEPT ![p] = m.calls]
  /\ ev' = [q \in DOMAIN ev |-> IF q = p THEN m.ev ELSE <<>>]
  /\ UNCHANGED calc
  /\ IF Len(m.stk) = 1 /\ Top(m).stage = Top(m).n + 1
       THEN Settle(p, m)
       ELSE /\ session' = m.session
            /\ everSet' = m.everSet
            /\ stack' = [stack EXCEPT ![p] = m.stk]
            /\ op' = [op EXCEPT ![p] = running]
            /\ UNCHANGED result

\* What a call starts from: its kind, whether it logs in, the credentials it
\* was given (for a query: the stored ones) and the session it found.
NoCall ==
  [kind |-> "none", login |-> FALSE, user |-> <<>>, password |-> <<>>,
   managed |-> FALSE, session |-> Undefined]
CallOf(kind, login, u, pw, mg) ==
  [kind |-> kind, login |-> login, user |-> u, password |-> pw,
   managed |-> mg, session |-> session]

\* connect(options): getAxiosInstance sets the base URL and installs one more
\* retry interceptor; a login follows unless the host is a local one.
Connect(p, host, cred) ==
  /\ op[p] = "idle"
  /\ interceptors < MaxInterceptors
  /\ baseURL' = OrElse(host, BASE_CLOUD_API_ENDPOINT)
  /\ interceptors' = interceptors + 1
  /\ all401' = [all401 EXCEPT ![p] = TRUE]
  /\ atCall' = [atCall EXCEPT ![p] =
                  CallOf("connect",
                         isMindsDbCloudEndpoint(baseURL')
                           \/ ~isLocalEndpoint(baseURL'),
                         cred.user, cred.password, cred.managed)]
  /\ LET m == [Machine(p) EXCEPT !.base = baseURL', !.n = interceptors',
                                 !.logins = 0, !.calls = 0]
     IN  IF isMindsDbCloudEndpoint(baseURL') \/ ~isLocalEndpoint(baseURL')
           THEN Store(p, authenticate(m, cred.user, cred.password,
                                      cred.managed), "connect")
           ELSE /\ op' = [op EXCEPT ![p] = "done"]
                /\ result' = [result EXCEPT ![p] =
                                [state |-> "resolved", out |-> NoOutcome,
                                 error |-> NoError, value |-> <<>>]]
                /\ logins' = [logins EXCEPT ![p] = 0]
                /\ calls' = [calls EXCEPT ![p] = 0]
                /\ ev' = [q \in DOMAIN ev |-> <<>>]
                /\ UNCHANGED <<session, user, password, managed, stack,
                               everSet, calc>>

\* SqlRestApiClient.runQuery(query) up to its await.
RunQuery(p, query) ==
  /\ op[p] = "idle"
  /\ LET m == [Machine(p) EXCEPT !.logins = 0, !.calls = 0]
     IN  Store(p, Dispatch(m, QueryConfig(query, baseURL, session), FALSE,
                           NoConfig, Undefined), "query")
  /\ all401' = [all401 EXCEPT ![p] = TRUE]
  /\ atCall' = [atCall EXCEPT ![p] =
                  CallOf("query", FALSE, user, password, managed)]
  /\ UNCHANGED <<baseURL, interceptors, result>>

\* ProjectsRestApiClient.getAllProjects() up to its await.
GetAllProjects(p) ==
  /\ op[p] = "idle"
  /\ LET m == [Machine(p) EXCEPT !.logins = 0, !.calls = 0]
     IN  Store(p, Dispatch(m, ProjectsConfig(baseURL, session), FALSE,
                           NoConfig, Undefined), "projects")
  /\ all401' = [all401 EXCEPT ![p] = TRUE]
  /\ atCall' = [atCall EXCEPT ![p] =
                  CallOf("projects", FALSE, user, password, managed)]
  /\ UNCHANGED <<baseURL, interceptors, result>>

\* The transport settles the request in flight of caller p with outcome
\* out, and the promise chain runs up to the next network boundary.
Settled(p, out) ==
  /\ op[p] \in {"query", "projects", "connect"}
  /\ Top(Machine(p)).stage = 0
  /\ LET m == Machine(p)
         f == Top(m)
     IN  Store(p, Run(Log(SetTop(m, [f EXCEPT !.out = out, !.stage = 1]),
                          [e |-> "settle", cfg |-> f.cfg, out |-> out])),
               op[p])
  /\ all401' = [all401 EXCEPT ![p] = @ /\ out.t = "err"
                                       /\ out.status = Unauthorized]
  /\ UNCHANGED <<baseURL, interceptors, atCall>>

\* The server answers with a 2xx response.  The SDK reads the Set-Cookie
\* headers of a login response only, and the data of every other response.
ServerResponds(p, cookies, data) ==
  /\ stack[p] # <<>>
  /\ LET cfg == Top(Machine(p)).cfg
     IN  Settled(p, [Response(cfg, Ok,
                              IF cfg.kind = "login" THEN cookies ELSE <<>>)
                       EXCEPT !.data = IF cfg.kind = "login" THEN Undefined
                                       ELSE data])

\* The server answers with an error status: axios rejects with an error
\* that holds the request configuration and the response.
ServerRejects(p, status) ==
  /\ stack[p] # <<>>
  /\ Settled(p, Error(Top(Machine(p)).cfg, status))

\* No response arrives.  The request was made and failed (network failure,
\* timeout): an AxiosError that holds the configuration and the request; or
\* axios gave up before making it: an AxiosError that holds the
\* configuration only, or nothing; or an Error that is not an AxiosError was
\* thrown.
TransportFails(p, failure) ==
  /\ stack[p] # <<>>
  /\ Settled(p, CASE failure = "network" ->
                       Error(Top(Machine(p)).cfg, NoResponse)
                  [] failure = "setup" -> SetupError(Top(Machine(p)).cfg)
                  [] failure = "bare" -> SetupError(NoConfig)
                  [] failure = "thrown" -> ThrownError)

\* The caller takes the result of its finished call.
Return(p) ==
  /\ op[p] = "done"
  /\ op' = [op EXCEPT ![p] = "idle"]
  /\ result' = [result EXCEPT ![p] = NoResult]
  /\ ev' = [q \in DOMAIN ev |-> <<>>]
  /\ atCall' = [atCall EXCEPT ![p] = NoCall]
  /\ UNCHANGED <<session, user, password, managed, baseURL, interceptors,
                 stack, logins, calls, all401, everSet, calc>>

\* The state after module construction (index.ts): no session, empty
\* credentials, the default client on the Cloud endpoint, no interceptor.
NoCalc == [fn |-> "none", done |-> FALSE, in |-> <<>>, out |-> <<>>]

Disconnected ==
  /\ session = Undefined
  /\ user = <<>>
  /\ password = <<>>
  /\ managed = FALSE
  /\ baseURL = BASE_CLOUD_API_ENDPOINT
  /\ interceptors = 0
  /\ op = [p \in Procs |-> "idle"]
  /\ stack = [p \in Procs |-> <<>>]
  /\ result = [p \in Procs |-> NoResult]
  /\ logins = [p \in Procs |-> 0]
  /\ calls = [p \in Procs |-> 0]
  /\ all401 = [p \in Procs |-> TRUE]
  /\ everSet = FALSE
  /\ atCall = [p \in Procs |-> NoCall]
  /\ ev = [p \in Procs |-> <<>>]

Init == Disconnected /\ calc = NoCalc

Next ==
  \/ \E p \in Procs, host \in HostOptions, cred \in CredOptions :
        Connect(p, host, cred)
  \/ \E p \in Procs, query \in Statements : RunQuery(p, query)
  \/ \E p \in Procs : GetAllProjects(p)
  \/ \E p \in Procs, cookies \in CookieLists,
           data \in { Undefined,
                      Some(ArrayBody(<<>>)),
                      Some(ArrayBody(<< <<"mindsdb">> >>)),
                      Some([ArrayBody(<<>>) EXCEPT !.type = Some("ok"),
                                                   !.items = Undefined]),
                      Some([ArrayBody(<<>>) EXCEPT
                              !.column_names = Some(<<"ID", "Name">>),
                              !.data = Some(<< <<"1", "2">> >>),
                              !.type = Some("table"),
                              !.context = Some(<<"db", "mindsdb">>),
                              !.items = Undefined]) } :
        ServerResponds(p, cookies, data)
  \/ \E p \in Procs, status \in Statuses \ {Ok} : ServerRejects(p, status)
  \/ \E p \in Procs, failure \in {"network", "setup", "bare", "thrown"} :
        TransportFails(p, failure)
  \/ \E p \in Procs : Return(p)

Spec == Init /\ [][Next]_vars

\* ------------------------------------------------------ concurrent callers
\* Two callers whose calls overlap: each makes one call, a query or the
\* list of projects, and awaits its requests while the other's code runs.
\* The SDK is connected to the Cloud endpoint as alice and holds the session
\* of that login.
Callers == {"c1", "c2"}

InitConcurrent ==
  /\ session = Some(<<"t1">>)
  /\ user = <<"alice">>
  /\ password = <<"pw-a">>
  /\ managed = FALSE
  /\ baseURL = BASE_CLOUD_API_ENDPOINT
  /\ interceptors = 1
  /\ op = [p \in Callers |-> "idle"]
  /\ stack = [p \in Callers |-> <<>>]
  /\ result = [p \in Callers |-> NoResult]
  /\ logins = [p \in Callers |-> 0]
  /\ calls = [p \in Callers |-> 0]
  /\ all401 = [p \in Callers |-> TRUE]
  /\ everSet = TRUE
  /\ atCall = [p \in Callers |-> NoCall]
  /\ calc = NoCalc
  /\ ev = [p \in Callers |-> <<>>]

\* What the server answers around a session expiry: a login gets a new
\* session or none, a request is rejected as unauthenticated or fails.
NextConcurrent ==
  \/ \E p \in Callers, query \in Statements : RunQuery(p, query)
  \/ \E p \in Callers : GetAllProjects(p)
  \/ \E p \in Callers,
           cookies \in { <<>>, << <<"unrelated", "=", "v">>,
                                  <<"session", "=", "t2">> >> },
           data \in {Some(ArrayBody(<< <<"mindsdb">> >>))} :
        ServerResponds(p, cookies, data)
  \/ \E p \in Callers, status \in {Unauthorized, InternalServerError} :
        ServerRejects(p, status)

SpecConcurrent == InitConcurrent /\ [][NextConcurrent]_vars

\* ----------------------------------------------------------- pure functions
\* The SDK's pure functions, each applied once to an input drawn from a
\* bounded set; the request machine stays as constructed.
SeqsUpTo(S, n) == UNION { [1..k -> S] : k \in 0..n }

\* Set-Cookie headers per response.
MaxHeaders == 2

\* Set-Cookie headers a server may send, and cookie names asked for.
SetCookieHeaders ==
  { <<"session", "=", "t1", ";", " ", "Domain", "=", ".mindsdb.com">>,
    <<"session", "=", "t2">>,
    <<"Session", "=", "t3">>,
    <<"id", "=", "7", ";", " ", "session", "=", "t4">>,
    <<"unrelated", "=", "v">>,
    <<"session", "=", "a", "=", "b", ";", " ", "Path", "=", "/">>,
    <<"session", "=">> }

Call(fn, in) == [fn |-> fn, done |-> FALSE, in |-> in, out |-> <<>>]

CookieCalls ==
  { Call("getCookieValue", [allCookies |-> l, cookieKey |-> k]) :
      l \in SeqsUpTo(SetCookieHeaders, MaxHeaders), k \in { <<"session">>, <<"Session">>, <<"Domain">> } }

\* getCookieValue(allCookies, cookieKey) is called and returns.
GetCookieValue ==
  /\ calc.fn = "getCookieValue"
  /\ ~calc.done
  /\ calc' = [calc EXCEPT !.done = TRUE,
                          !.out = getCookieValue(calc.in.allCookies,
                                                 calc.in.cookieKey)]
  /\ UNCHANGED machine

\* Columns per response and data rows per response.
MaxColumns == 2
MaxRows == 2

\* Raw responses of the /api/sql/query endpoint: column names and rows (or
\* neither), a type, and optional context and error message.  A row has one
\* field per column, or one field less, or one field more.
Tables ==
  { [column_names |-> Undefined, data |-> Undefined] }
  \cup UNION { { [column_names |-> Some(c), data |-> Some(d)] :
                   c \in [1..n -> {"id", "ID", "Name", "undefined"}],
                   d \in SeqsUpTo([1..n -> {"1", "2"}]
                                    \cup { [k \in 1..m |-> IF k % 2 = 1
                                                             THEN "1" ELSE "2"] :
                                             m \in {n + 1} \cup ({n - 1} \ {-1}) },
                                  MaxRows) } :
               n \in 0..MaxColumns }
SqlApiResponses ==
  { [column_names |-> tb.column_names, data |-> tb.data, type |-> Some(t),
     context |-> cx, error_message |-> em] :
      tb \in Tables,
      t \in {"table", "ok", "error"},
      cx \in {Some(<<"db", "mindsdb">>)},
      em \in {Undefined, Some(<<"table not found">>)} }

QueryResultCalls == { Call("makeQueryResult", r) : r \in SqlApiResponses }

\* makeQueryResult(response) is called and returns.
MakeQueryResult ==
  /\ calc.fn = "makeQueryResult"
  /\ ~calc.done
  /\ calc' = [calc EXCEPT !.done = TRUE, !.out = makeQueryResult(calc.in)]
  /\ UNCHANGED machine

\* What a resource-client operation gives its caller.
Returned(value) == [kind |-> "returned", value |-> value, error |-> NoError]
Raised(error) == [kind |-> "raised", value |-> <<>>, error |-> error]

\* obj[key]: undefined for a missing property.
Get(obj, key) == IF key \in DOMAIN obj THEN Some(obj[key]) ELSE Undefined

\* Model.fromModelRow(obj).
fromModelRow(obj) ==
  [name |-> Get(obj, "name"), project |-> Get(obj, "project"),
   predict |-> Get(obj, "predict"), status |-> Get(obj, "status"),
   update_status |-> Get(obj, "update_status"),
   version |-> Get(obj, "version"), accuracy |-> Get(obj, "accuracy"),
   tag |-> Get(obj, "tag"), active |-> Get(obj, "active")]

\* new Database(client, r['database'], r['type'], r['engine']).
Database(r) ==
  [name |-> Get(r, "database"), type |-> Get(r, "type"),
   engine |-> Get(r, "engine")]

\* The template `tables_in_${project.toLowerCase()}` for the projects in use.
TablesInKey(project) ==
  CASE toLowerCase(project) = "mindsdb" -> "tables_in_mindsdb"
    [] toLowerCase(project) = "files" -> "tables_in_files"

\* `if (sqlQueryResult.error_message) throw new MindsDbError(...)`, then the
\* given value.
ThrowOnErrorMessage(sqlQueryResult, value) ==
  IF Truthy(sqlQueryResult.error_message)
    THEN Raised(MindsDbError(sqlQueryResult.error_message.val))
    ELSE Returned(value)

\* The resource-client operations, from the result of their runQuery on.
getModel(sqlQueryResult) ==
  IF Len(sqlQueryResult.rows) = 0 THEN Returned(Undefined)
  ELSE Returned(Some(fromModelRow(sqlQueryResult.rows[1])))
getAllModels(sqlQueryResult) ==
  Returned([i \in 1..Len(sqlQueryResult.rows) |->
              fromModelRow(sqlQueryResult.rows[i])])
describeModel(sqlQueryResult) ==
  IF Len(sqlQueryResult.rows) = 0 THEN Returned(<<>>)
  ELSE Returned(sqlQueryResult.rows)
deleteModel(sqlQueryResult) == ThrowOnErrorMessage(sqlQueryResult, Undefined)
getAllDatabases(sqlQueryResult) ==
  Returned([i \in 1..Len(sqlQueryResult.rows) |->
              Database(sqlQueryResult.rows[i])])
getDatabase(sqlQueryResult, name) ==
  LET IsNamed(r) == Get(r, "database") = Some(name)
      found == SelectSeq(sqlQueryResult.rows, IsNamed)
  IN  IF found = <<>> THEN Returned(Undefined)
      ELSE Returned(Some(Database(found[1])))
createDatabase(sqlQueryResult, name, engine) ==
  LET type == IF Truthy(engine) THEN "data" ELSE "project"
  IN  ThrowOnErrorMessage(sqlQueryResult,
                          [name |-> Some(name), type |-> Some(type),
                           engine |-> engine])
getAllViews(sqlQueryResult, project) ==
  LET IsView(r) == Get(r, "table_type") = Some("VIEW")
      viewRows == SelectSeq(sqlQueryResult.rows, IsView)
  IN  Returned([i \in 1..Len(viewRows) |->
                  [name |-> Get(viewRows[i], TablesInKey(project)),
                   project |-> project]])

ResourceOperations ==
  {"getModel", "getAllModels", "describeModel", "deleteModel",
   "getAllDatabases", "getDatabase", "createDatabase", "getAllViews"}

\* What the server answers to a resource client's statement: a table of
\* two rows, an empty table, an acknowledgement, or a statement error.
StatementResponses ==
  { [column_names |-> Some(<<"Name", "database", "table_type",
                            "tables_in_mindsdb">>),
     data |-> Some(<< <<"m1", "files", "VIEW", "v1">>,
                      <<"m2", "other", "BASE TABLE", "t1">> >>),
     type |-> Some("table"), context |-> Undefined, error_message |-> Undefined],
    [column_names |-> Some(<<"table_type", "tables_in_files">>),
     data |-> Some(<< <<"VIEW", "v2">> >>),
     type |-> Some("table"), context |-> Undefined, error_message |-> Undefined],
    [column_names |-> Some(<<"Name", "database">>), data |-> Some(<<>>),
     type |-> Some("table"), context |-> Undefined, error_message |-> Undefined],
    [column_names |-> Undefined, data |-> Undefined,
     type |-> Some("ok"), context |-> Undefined, error_message |-> Undefined],
    [column_names |-> Undefined, data |-> Undefined,
     type |-> Some("error"), context |-> Undefined,
     error_message |-> Some(<<"Table 'models' not found">>)] }

ResourceCalls ==
  { Call("resource", [operation |-> o, name |-> n, engine |-> e,
                      sqlQueryResult |-> makeQueryResult(r)]) :
      o \in ResourceOperations, n \in {"files", "MindsDB"},
      e \in {Undefined, Some(<<>>), Some(<<"postgres">>)},
      r \in StatementResponses }

\* A resource-client operation runs from the result of its runQuery on.
ResourceOperation ==
  /\ calc.fn = "resource"
  /\ ~calc.done
  /\ LET r == calc.in.sqlQueryResult
         o == calc.in.operation
     IN  calc' = [calc EXCEPT
                    !.done = TRUE,
                    !.out = CASE o = "getModel" -> getModel(r)
                              [] o = "getAllModels" -> getAllModels(r)
                              [] o = "describeModel" -> describeModel(r)
                              [] o = "deleteModel" -> deleteModel(r)
                              [] o = "getAllDatabases" -> getAllDatabases(r)
                              [] o = "getDatabase" ->
                                   getDatabase(r, calc.in.name)
                              [] o = "createDatabase" ->
                                   createDatabase(r, calc.in.name,
                                                  calc.in.engine)
                              [] o = "getAllViews" ->
                                   getAllViews(r, calc.in.name)]
  /\ UNCHANGED machine

\* ------------------------------------------------------ generated statements
\* A statement is a string: a sequence of atoms, where the characters that
\* quoting is about (backtick, quotes, backslash, dot) are atoms of their own.

\* The characters quoting is about.
Backslash == "\\"
DoubleQuote == "\""
SingleQuote == "'"
\* The grave accent U+0060, which a TLA+ string cannot hold.
Backtick == "<U+0060>"

\* Array.prototype.join(separator) of an array of strings.
RECURSIVE Join(_, _)
Join(parts, separator) ==
  IF parts = <<>> THEN <<>>
  ELSE IF Len(parts) = 1 THEN parts[1]
  ELSE parts[1] \o separator \o Join(Tail(parts), separator)

\* String.prototype.replace(/c/g, by): every atom c replaced by the atoms by.
ReplaceAll(s, c, by) ==
  Join([i \in 1..Len(s) |-> IF s[i] = c THEN by ELSE <<s[i]>>], <<>>)

\* mysql.escapeId(val) of the mysql package: backticks doubled, a dot made a
\* qualifier separator, the whole delimited by backticks.
escapeId(val) ==
  <<Backtick>> \o ReplaceAll(ReplaceAll(val, Backtick, <<Backtick, Backtick>>),
                        ".", <<Backtick, ".", Backtick>>) \o <<Backtick>>

\* The characters mysql.escape puts a backslash before.
EscapedCharacters == {SingleQuote, DoubleQuote, Backslash}

\* Values a caller passes where a literal is generated.
Str(s) == [type |-> "string", val |-> s]
Num(text) == [type |-> "number", val |-> text]

\* mysql.escape(val) of the mysql package: a number as its text, a string
\* between single quotes with a backslash before each quote and backslash.
escape(val) ==
  IF val.type = "number" THEN val.val
  ELSE <<SingleQuote>>
       \o Join([i \in 1..Len(val.val) |->
                  IF val.val[i] \in EscapedCharacters
                    THEN <<Backslash, val.val[i]>> ELSE <<val.val[i]>>], <<>>)
       \o <<SingleQuote>>

\* JSON.stringify of a string, and of an object given as a sequence of
\* <<key, string>> properties.
JsonString(s) ==
  <<DoubleQuote>>
  \o Join([i \in 1..Len(s) |->
             IF s[i] \in {DoubleQuote, Backslash}
               THEN <<Backslash, s[i]>> ELSE <<s[i]>>],
          <<>>)
  \o <<DoubleQuote>>
JsonStringify(obj) ==
  <<"{">>
  \o Join([i \in 1..Len(obj) |->
             JsonString(obj[i][1]) \o <<":">> \o JsonString(obj[i][2])],
          <<",">>)
  \o <<"}">>

\* DatabasesRestApiClient.createDatabase(name, engine, params) up to its
\* runQuery: the statement it sends.
createDatabaseQuery(name, engine, params) ==
  LET escapedName == escapeId(name)
      escapedNameNoBackticks == SubSeq(escapedName, 2, Len(escapedName) - 1)
      createClause == <<"CREATE DATABASE ">> \o escapedNameNoBackticks
      engineClause0 == IF Truthy(engine)
                         THEN <<"WITH ENGINE = ">> \o escape(Str(engine.val))
                         ELSE <<>>
      engineClause == IF params.def THEN engineClause0 \o <<",">>
                      ELSE engineClause0
      paramsClause == IF params.def
                        THEN <<"PARAMETERS = ">> \o JsonStringify(params.val)
                        ELSE <<>>
  IN  Join(<<createClause, engineClause, paramsClause>>, <<"\n">>)

\* DatabasesRestApiClient.deleteDatabase(name) up to its runQuery.
dropDatabaseQuery(name) == <<"DROP DATABASE ">> \o escapeId(name)

\* ProjectsRestApiClient.createProject(name) and deleteProject(name) up to
\* their runQuery.
createProjectSqlQuery(name) == <<"CREATE PROJECT ">> \o name
deleteProjectSqlQuery(name) == <<"DROP PROJECT ">> \o name

\* KnowledgeBaseRestApiClient.createKnowledgeBase(name, project, model,
\* storage, metadataColumns, contentColumns, idColumn, params) up to its
\* runQuery, for calls that leave metadataColumns, contentColumns and params
\* unset.
createKnowledgeBaseAstQuery(name, project, model, storage, idColumn) ==
  LET paramsOut == IF Truthy(idColumn)
                     THEN << << <<"id_column">>, idColumn.val >> >> ELSE <<>>
      modelName == IF Truthy(model)
                     THEN Some(project \o <<".">> \o model.val) ELSE Undefined
      storageName == IF Truthy(storage) THEN storage ELSE Undefined
      create == <<"CREATE KNOWLEDGE BASE ">> \o project \o <<".">> \o name
      using ==
        IF Truthy(modelName) \/ Truthy(storageName) \/ Len(paramsOut) > 0
          THEN <<" USING ">>
               \o (IF Truthy(modelName)
                     THEN <<"MODEL = ">> \o modelName.val ELSE <<>>)
               \o (IF Truthy(storageName)
                     THEN <<" STORAGE = ">> \o storageName.val ELSE <<>>)
               \o (IF Len(paramsOut) > 0
                     THEN <<" PARAMS = ">> \o JsonStringify(paramsOut)
                     ELSE <<>>)
          ELSE <<>>
  IN  create \o using \o <<";">>

\* KnowledgeBaseRestApiClient.deleteKnowledgeBase(name, project) up to its
\* runQuery.
deleteKnowledgeBaseAstQuery(name, project) ==
  <<"DROP KNOWLEDGE BASE ">> \o project \o <<".">> \o name \o <<";">>

\* Names callers give: a plain one, one holding a backtick, and one that
\* ends the statement and starts another.
Identifiers == { <<"k", "b">>, <<"k", Backtick, "b">>, <<"k", ";", "DROP ", "x">> }
OptionalNames == { Undefined, Some(<<"m">>) }

\* The operations whose statement is generated from identifiers alone.
IdentifierOperations ==
  {"createDatabase", "deleteDatabase", "createProject", "deleteProject",
   "createKnowledgeBase", "deleteKnowledgeBase"}

StatementCalls ==
  { Call("statement",
         [operation |-> o, name |-> n, project |-> <<"mindsdb">>,
          engine |-> Undefined, params |-> Undefined,
          model |-> Undefined, storage |-> Undefined,
          idColumn |-> Undefined]) :
      o \in IdentifierOperations, n \in Identifiers }
  \cup { Call("statement",
              [operation |-> "createDatabase", name |-> <<"k", "b">>,
               project |-> <<"mindsdb">>, engine |-> e, params |-> ps,
               model |-> Undefined, storage |-> Undefined,
               idColumn |-> Undefined]) :
           e \in { Undefined, Some(<<"postgres">>),
                   Some(<<"o", SingleQuote, "db">>) },
           ps \in { Undefined, Some(<< << <<"user">>, <<"u">> >> >>) } }
  \cup { Call("statement",
              [operation |-> "createKnowledgeBase", name |-> <<"k", "b">>,
               project |-> pr, engine |-> Undefined, params |-> Undefined,
               model |-> md, storage |-> st, idColumn |-> idc]) :
           pr \in Identifiers, md \in OptionalNames, st \in OptionalNames,
           idc \in OptionalNames }

\* A resource-client operation generates its statement and hands it to
\* runQuery.
GenerateStatement ==
  /\ calc.fn = "statement"
  /\ ~calc.done
  /\ LET o == calc.in.operation
         n == calc.in.name
     IN  calc' = [calc EXCEPT
                    !.done = TRUE,
                    !.out =
                      CASE o = "createDatabase" ->
                             createDatabaseQuery(n, calc.in.engine,
                                                 calc.in.params)
                        [] o = "deleteDatabase" -> dropDatabaseQuery(n)
                        [] o = "createProject" -> createProjectSqlQuery(n)
                        [] o = "deleteProject" -> deleteProjectSqlQuery(n)
                        [] o = "createKnowledgeBase" ->
                             createKnowledgeBaseAstQuery(
                               n, calc.in.project, calc.in.model,
                               calc.in.storage, calc.in.idColumn)
                        [] o = "deleteKnowledgeBase" ->
                             deleteKnowledgeBaseAstQuery(n, calc.in.project)]
  /\ UNCHANGED machine

\* KnowledgeBase.insert(records), the body of its inner forEach for one cell:
\* a string has its single and then its double quotes prefixed with a
\* backslash and is put between single quotes; any other value is appended
\* as its text.
quoteCell(cellValue) ==
  IF cellValue.type = "string"
    THEN <<SingleQuote>>
         \o ReplaceAll(ReplaceAll(cellValue.val, SingleQuote,
                                  <<Backslash, SingleQuote>>),
                       DoubleQuote, <<Backslash, DoubleQuote>>)
         \o <<SingleQuote>>
    ELSE cellValue.val

\* KnowledgeBase.insert(records) up to insertDataIntoKnowledgeBase: the
\* statement it sends.  A record is a sequence of <<column, value>>
\* properties; the separator ", " is one atom of two characters, which is
\* what slice(0, -2) removes from the end.
insertSqlQuery(tableName, records) ==
  LET rowString(row) ==
        <<"(">>
        \o Join([j \in 1..Len(row) |-> quoteCell(row[j][2])], <<", ">>)
        \o <<")", ", ">>
      valueString0 == Join([i \in 1..Len(records) |-> rowString(records[i])],
                           <<>>)
      valueString == SubSeq(valueString0, 1, Len(valueString0) - 1)
      columnNames == Join([j \in 1..Len(records[1]) |-> records[1][j][1]],
                          <<", ">>)
  IN  <<"INSERT INTO ">> \o tableName \o <<" (">> \o columnNames
      \o <<") VALUES ">> \o valueString \o <<";">>

\* Texts callers store: plain, and holding quotes and backslashes.
CellValues ==
  { Str(t) : t \in { <<"a">>, <<"a", SingleQuote, "b">>,
                     <<"a", DoubleQuote, "b">>, <<"a", Backslash>>,
                     <<Backslash, SingleQuote>> } }
  \cup { Num(<<"7">>) }

\* Records of one or two columns, one or two of them in a call.
Records ==
  { << <<"content">>, v >> : v \in CellValues }
RecordLists ==
  { << <<r>> >> : r \in Records }
  \cup { << <<r, << <<"id">>, Num(<<"7">>) >> >> >> : r \in Records }
  \cup { << <<r>>, << << <<"content">>, Str(<<"a">>) >> >> >> :
           r \in Records }

InsertCalls ==
  { Call("insert", [tableName |-> <<"mindsdb", ".", "kb">>, records |-> rs]) :
      rs \in RecordLists }
EscapeCalls == { Call("escape", [val |-> v]) : v \in CellValues }

\* KnowledgeBase.insert(records) generates its statement.
Insert ==
  /\ calc.fn = "insert"
  /\ ~calc.done
  /\ calc' = [calc EXCEPT
                !.done = TRUE,
                !.out = insertSqlQuery(calc.in.tableName, calc.in.records)]
  /\ UNCHANGED machine

\* A resource client quotes a value with mysql.escape.
Escape ==
  /\ calc.fn = "escape"
  /\ ~calc.done
  /\ calc' = [calc EXCEPT !.done = TRUE, !.out = escape(calc.in.val)]
  /\ UNCHANGED machine

\* JavaScript truthiness of a number | undefined: 0 is falsy.
TruthyNumber(v) == v.def /\ v.val # <<"0">>

\* A structured value: an object given as its sequence of properties.
Obj(properties) == [type |-> "object", val |-> properties]

\* ModelsRestApiClient.makeTrainingCreateClause(name, project).
makeTrainingCreateClause(name, project) ==
  <<"CREATE MODEL ">> \o escapeId(project) \o <<".">> \o escapeId(name)

\* ModelsRestApiClient.makeTrainingFromClause(options).
makeTrainingFromClause(options) ==
  IF Truthy(options.integration)
    THEN <<"FROM ">> \o escapeId(options.integration.val)
    ELSE <<>>

\* ModelsRestApiClient.makeTrainingSelectClause(options).
makeTrainingSelectClause(options) ==
  IF Truthy(options.select)
    THEN <<"(">> \o options.select.val \o <<")">>
    ELSE <<>>

\* ModelsRestApiClient.makeTrainingPredictClause(targetColumn).
makeTrainingPredictClause(targetColumn) ==
  <<"PREDICT ">> \o escapeId(targetColumn)

\* ModelsRestApiClient.makeTrainingOrderByClause(trainingOptions).
makeTrainingOrderByClause(trainingOptions) ==
  IF ~Truthy(trainingOptions.orderBy) THEN <<>>
  ELSE <<"ORDER BY ">> \o escapeId(trainingOptions.orderBy.val)

\* ModelsRestApiClient.makeTrainingGroupByClause(trainingOptions).
makeTrainingGroupByClause(trainingOptions) ==
  IF ~Truthy(trainingOptions.groupBy) THEN <<>>
  ELSE <<"GROUP BY ">> \o escapeId(trainingOptions.groupBy.val)

\* ModelsRestApiClient.makeTrainingWindowHorizonClause(trainingOptions).
makeTrainingWindowHorizonClause(trainingOptions) ==
  LET window == trainingOptions.window
      horizon == trainingOptions.horizon
  IN  IF ~TruthyNumber(window) \/ ~TruthyNumber(horizon) THEN <<>>
      ELSE <<"WINDOW ">> \o escape(Num(window.val)) \o <<"\n">>
           \o <<"HORIZON ">> \o escape(Num(horizon.val))

\* ModelsRestApiClient.makeTrainingUsingClause(options).
makeTrainingUsingClause(options) ==
  LET using == options.using
      paramVal(v) == IF v.type = "object" THEN JsonStringify(v.val)
                     ELSE escape(v)
  IN  IF ~using.def THEN <<>>
      ELSE <<"USING", "\n">>
           \o Join([i \in 1..Len(using.val) |->
                      escapeId(using.val[i][1]) \o <<" = ">>
                      \o paramVal(using.val[i][2])],
                   <<",", "\n">>)

\* Variant of the statement of trainModel with the clauses in the order in
\* which trainModel computes them: ORDER BY before GROUP BY.
trainModelQueryInComputedOrder(name, targetColumn, project, trainingOptions) ==
  LET IsSet(clause) == clause # <<>>
  IN  Join(SelectSeq(<<makeTrainingCreateClause(name, project),
                       makeTrainingFromClause(trainingOptions),
                       makeTrainingSelectClause(trainingOptions),
                       makeTrainingPredictClause(targetColumn),
                       makeTrainingOrderByClause(trainingOptions),
                       makeTrainingGroupByClause(trainingOptions),
                       makeTrainingWindowHorizonClause(trainingOptions),
                       makeTrainingUsingClause(trainingOptions)>>, IsSet),
           <<"\n">>)

\* ModelsRestApiClient.trainModel(name, targetColumn, project,
\* trainingOptions) up to its runQuery: the statement it sends.
trainModelQuery(name, targetColumn, project, trainingOptions) ==
  LET createClause == makeTrainingCreateClause(name, project)
      fromClause == makeTrainingFromClause(trainingOptions)
      selectClause == makeTrainingSelectClause(trainingOptions)
      predictClause == makeTrainingPredictClause(targetColumn)
      orderByClause == makeTrainingOrderByClause(trainingOptions)
      groupByClause == makeTrainingGroupByClause(trainingOptions)
      windowHorizonClause == makeTrainingWindowHorizonClause(trainingOptions)
      usingClause == makeTrainingUsingClause(trainingOptions)
      IsSet(s) == s # <<>>
  IN  Join(SelectSeq(<<createClause, fromClause, selectClause, predictClause,
                       groupByClause, orderByClause, windowHorizonClause,
                       usingClause>>, IsSet),
           <<"\n">>)

\* Training options callers give.
TrainingOptions ==
  [integration : { Undefined, Some(<<"c">>) },
   select : { Undefined, Some(<<"SELECT * FROM my_db.my_table">>) },
   groupBy : { Undefined, Some(<<"c">>) },
   orderBy : { Undefined, Some(<<"c">>) },
   window : { Undefined, Some(<<"0">>), Some(<<"6">>) },
   horizon : { Undefined, Some(<<"0">>), Some(<<"6">>) },
   using : { Undefined,
             Some(<<>>),
             Some(<< << <<"tag">>, Str(<<"test-tag">>) >>,
                     << <<"model", ".", "args">>, Obj(<<>>) >> >>) }]

TrainCalls ==
  { Call("trainModel",
         [name |-> <<"my_test_model">>, targetColumn |-> <<"target_column">>,
          project |-> <<"my_test_project">>, trainingOptions |-> o]) :
      o \in TrainingOptions }

\* ModelsRestApiClient.trainModel generates its statement.
TrainModel ==
  /\ calc.fn = "trainModel"
  /\ ~calc.done
  /\ calc' = [calc EXCEPT
                !.done = TRUE,
                !.out = trainModelQuery(calc.in.name, calc.in.targetColumn,
                                        calc.in.project,
                                        calc.in.trainingOptions)]
  /\ UNCHANGED machine

\* ----------------------------------------------------------- agent update
MaxSkills == 2

\* new Set(array) and set.add: a Set keeps its elements once each, in the
\* order of their first insertion; set.delete(element).
RECURSIVE SetFrom(_)
SetFrom(array) ==
  IF array = <<>> THEN <<>>
  ELSE LET init == SetFrom(SubSeq(array, 1, Len(array) - 1))
           last == array[Len(array)]
       IN  IF \E i \in 1..Len(init) : init[i] = last THEN init
           ELSE Append(init, last)
SetDelete(set, element) ==
  LET Other(x) == x # element
  IN  SelectSeq(set, Other)
RECURSIVE DeleteEach(_, _)
DeleteEach(set, elements) ==
  IF elements = <<>> THEN set
  ELSE DeleteEach(SetDelete(set, elements[1]), Tail(elements))

\* AgentsRestApiClient.updateAgent(project, agentName, updatedName,
\* updatedModel, updatedSkills, updatedParams) from the agent that getAgent
\* returned up to its PUT: the agent object it sends.
updatedAgent(agent, updatedName, updatedModel, updatedSkills, updatedParams) ==
  LET updatedSkillSet == IF updatedSkills.def THEN SetFrom(updatedSkills.val)
                         ELSE <<>>
      existingSkillSet == SetFrom(agent.skills)
      skillsToAddSet == DeleteEach(updatedSkillSet, existingSkillSet)
      skillsToRemoveSet == DeleteEach(existingSkillSet, updatedSkillSet)
  IN  [name |-> OrElse(updatedName, agent.name),
       model_name |-> OrElse(updatedModel, agent.model),
       skills_to_add |-> skillsToAddSet,
       skills_to_remove |-> skillsToRemoveSet,
       params |-> OrElse(updatedParams, agent.params)]

\* Agents and updates callers give.
SkillLists == SeqsUpTo({"sql_skill", "kb_skill"}, MaxSkills)
Agents ==
  { [name |-> <<"my_agent">>, model |-> <<"gpt">>, skills |-> s,
     params |-> <<"{}">>] : s \in SkillLists }
OptionalSkillLists == {Undefined} \cup { Some(s) : s \in SkillLists }

UpdateAgentCalls ==
  { Call("updateAgent",
         [agent |-> a, updatedName |-> n, updatedModel |-> Undefined,
          updatedSkills |-> s, updatedParams |-> Undefined]) :
      a \in Agents, n \in { Undefined, Some(<<"new_agent">>) },
      s \in OptionalSkillLists }

\* AgentsRestApiClient.updateAgent builds the agent object it sends.
UpdateAgent ==
  /\ calc.fn = "updateAgent"
  /\ ~calc.done
  /\ calc' = [calc EXCEPT
                !.done = TRUE,
                !.out = updatedAgent(calc.in.agent, calc.in.updatedName,
                                     calc.in.updatedModel,
                                     calc.in.updatedSkills,
                                     calc.in.updatedParams)]
  /\ UNCHANGED machine

\* Errors a request of runQuery may fail with: an AxiosError for a response
\* of each status that has a hint of its own and of two that have none (409,
\* 418), one for a request without response, one raised before the request
\* was made, with and without the configuration, and an Error that is not
\* an AxiosError.
HttpErrorCalls ==
  LET cfg == QueryConfig(<<"SELECT 1">>, BASE_CLOUD_API_ENDPOINT, Undefined)
  IN  { Call("fromHttpError", [error |-> e, url |-> cfg.url]) :
          e \in { Error(cfg, status) :
                    status \in {NoResponse, BadRequest, Unauthorized,
                                Forbidden, NotFound, TooManyRequests,
                                RequestTimeout, GatewayTimeout,
                                InternalServerError, BadGateway,
                                ServiceUnavailable, 409, 418} }
                 \cup {SetupError(cfg), SetupError(NoConfig), ThrownError} }

\* MindsDbError.fromHttpError(error, url) is called and returns.
FromHttpError ==
  /\ calc.fn = "fromHttpError"
  /\ ~calc.done
  /\ calc' = [calc EXCEPT !.done = TRUE,
                          !.out = fromHttpError(calc.in.error, calc.in.url)]
  /\ UNCHANGED machine

InitFunctions ==
  /\ Disconnected
  /\ calc \in CookieCalls \cup QueryResultCalls \cup ResourceCalls
               \cup StatementCalls \cup InsertCalls \cup EscapeCalls
               \cup TrainCalls \cup UpdateAgentCalls \cup HttpErrorCalls

NextFunctions ==
  \/ GetCookieValue
  \/ MakeQueryResult
  \/ ResourceOperation
  \/ GenerateStatement
  \/ Insert
  \/ Escape
  \/ TrainModel
  \/ UpdateAgent
  \/ FromHttpError

SpecFunctions == InitFunctions /\ [][NextFunctions]_vars

\* ------------------------------------------------------------------ Job
\* A Job object is built by chained calls and then created.  create() is
\* asynchronous: it runs up to its await of jobsApiClient.createJob and
\* returns a pending promise, other calls on the job may run meanwhile, and
\* it is resumed when createJob settles.  calc.in holds what happened on the
\* job so far: the calls made, and the settlements of createJob calls (each
\* with the position of its create() and the error createJob rejected with,
\* if any); calc.out the job's fields together with what the latest step
\* did: its result and the createJob call it made or resumed after;
\* calc.pending the create() calls that are awaiting createJob.

MaxJobCalls == 4

\* new Job(jobsApiClient, name, project).
NewJob(name, project) ==
  [name |-> name, project |-> project, queries |-> <<>>,
   start |-> Undefined, end |-> Undefined, every |-> Undefined,
   ifCondition |-> Undefined]

\* No createJob call.
NoCreateJob ==
  [name |-> <<>>, project |-> <<>>, query |-> <<>>, start |-> Undefined,
   end |-> Undefined, every |-> Undefined, ifCondition |-> Undefined]

\* What a step on a job leaves: the job, whether the call returned, raised
\* or is pending, how many createJob calls the step made, and the arguments
\* of the createJob call it made or was resumed after.
JobOutcome(job, kind, error, made, createJob) ==
  [job |-> job, kind |-> kind, error |-> error, calls |-> made,
   createJob |-> createJob]

\* Job.addQuery(query).
addQuery(job, query) ==
  IF query.type = "string"
    THEN JobOutcome([job EXCEPT !.queries = Append(@, query.val)],
                    "returned", NoError, 0, NoCreateJob)
    ELSE JobOutcome(job, "raised",
                    MindsDbError(<<"Invalid query type. Must be a string.">>),
                    0, NoCreateJob)

\* Job.setStart(start), setEnd(end), setEvery(every),
\* setIfCondition(ifCondition).
setStart(job, start) ==
  JobOutcome([job EXCEPT !.start = Some(start)], "returned", NoError, 0,
             NoCreateJob)
setEnd(job, end) ==
  JobOutcome([job EXCEPT !.end = Some(end)], "returned", NoError, 0,
             NoCreateJob)
setEvery(job, every) ==
  JobOutcome([job EXCEPT !.every = Some(every)], "returned", NoError, 0,
             NoCreateJob)
setIfCondition(job, ifCondition) ==
  JobOutcome([job EXCEPT !.ifCondition = Some(ifCondition)], "returned",
             NoError, 0, NoCreateJob)

\* Variant of Job.create() without the test for an empty list of queries.
createWithoutQueryTest(job) ==
  JobOutcome(job, "pending", NoError, 1,
             [name |-> job.name, project |-> job.project,
              query |-> Join(job.queries, <<";", "\n">>),
              start |-> job.start, end |-> job.end, every |-> job.every,
              ifCondition |-> job.ifCondition])

\* Job.create() up to its await: it raises without a query, and otherwise
\* calls jobsApiClient.createJob and is pending.
create(job) ==
  IF Len(job.queries) = 0
    THEN JobOutcome(job, "raised",
                    MindsDbError(<<"No queries added to the job.">>),
                    0, NoCreateJob)
    ELSE LET queryStr == Join(job.queries, <<";", "\n">>)
         IN  JobOutcome(job, "pending", NoError, 1,
                        [name |-> job.name, project |-> job.project,
                         query |-> queryStr, start |-> job.start,
                         end |-> job.end, every |-> job.every,
                         ifCondition |-> job.ifCondition])

\* One more call on the job.  A call that is pending joins calc.pending with
\* its position in calc.in and the createJob call it awaits.
JobCall(method, arg, outcome) ==
  LET IsCall(c) == c.method # "settle"
  IN  /\ calc.fn = "job"
      /\ Len(SelectSeq(calc.in, IsCall)) < MaxJobCalls
      /\ calc' = [calc EXCEPT
                    !.in = Append(@, [method |-> method, arg |-> arg]),
                    !.out = outcome,
                    !.pending = IF outcome.kind = "pending"
                                  THEN Append(@, [at |-> Len(calc.in) + 1,
                                                  createJob |-> outcome.createJob])
                                  ELSE @]
      /\ UNCHANGED machine

AddQuery(query) == JobCall("addQuery", query, addQuery(calc.out.job, query))
SetStart(start) ==
  JobCall("setStart", Str(start), setStart(calc.out.job, start))
SetEnd(end) == JobCall("setEnd", Str(end), setEnd(calc.out.job, end))
SetEvery(every) ==
  JobCall("setEvery", Str(every), setEvery(calc.out.job, every))
SetIfCondition(ifCondition) ==
  JobCall("setIfCondition", Str(ifCondition),
          setIfCondition(calc.out.job, ifCondition))
Create == JobCall("create", Str(<<>>), create(calc.out.job))

\* The createJob call awaited by the k-th pending create() settles, and
\* that create() is resumed: it returns when createJob resolved and raises
\* the error createJob rejected with (rejection; NoError when it resolved).
\* The job is left as it is.
CreateSettles(k, rejection) ==
  /\ calc.fn = "job"
  /\ k \in 1..Len(calc.pending)
  /\ calc' = [calc EXCEPT
                !.in = Append(@, [method |-> "settle",
                                  arg |-> [of |-> calc.pending[k].at,
                                           error |-> rejection]]),
                !.out = JobOutcome(calc.out.job,
                                   IF rejection = NoError THEN "returned"
                                   ELSE "raised",
                                   rejection, 0, calc.pending[k].createJob),
                !.pending = SubSeq(@, 1, k - 1) \o SubSeq(@, k + 1, Len(@))]
  /\ UNCHANGED machine

InitJob ==
  /\ Disconnected
  /\ calc = [fn |-> "job", done |-> FALSE, in |-> <<>>,
             out |-> JobOutcome(NewJob(<<"my_job">>, <<"mindsdb">>), "none",
                                NoError, 0, NoCreateJob),
             pending |-> <<>>]

NextJob ==
  \/ \E query \in { Str(<<"SELECT 1">>), Str(<<"SELECT 2">>), Num(<<"7">>) } :
        AddQuery(query)
  \/ \E setting \in { <<"2024-01-01">>, <<"1 day">> } :
        \/ SetStart(setting)
        \/ SetEnd(setting)
        \/ SetEvery(setting)
        \/ SetIfCondition(setting)
  \/ Create
  \/ \E k \in 1..MaxJobCalls,
          rejection \in { NoError,
                          MindsDbError(<<"Job already exists">>),
                          [name |-> "Error", message |-> <<"Network Error">>] } :
        CreateSettles(k, rejection)

SpecJob == InitJob /\ [][NextJob]_vars

\* ------------------------------------------------------------------- claims
\* What the latest run of caller p did, in order.
Did(p) == ev[p]
Steps(p) == 1..Len(ev[p])

\* The leading name=value attribute of a Set-Cookie header: the text before
\* the first ';', its name the text before the first '=', its value the text
\* after it.
FirstIndex(h, atom) ==
  IF Includes(h, atom)
    THEN CHOOSE i \in 1..Len(h) : h[i] = atom /\ \A j \in 1..(i - 1) : h[j] # atom
    ELSE Len(h) + 1
LeadingAttribute(h) == SubSeq(h, 1, FirstIndex(h, ";") - 1)
HasLeadingName(h, name) ==
  /\ Includes(LeadingAttribute(h), "=")
  /\ SubSeq(LeadingAttribute(h), 1, FirstIndex(LeadingAttribute(h), "=") - 1)
       = name
LeadingValue(h) ==
  SubSeq(LeadingAttribute(h), FirstIndex(LeadingAttribute(h), "=") + 1,
         Len(LeadingAttribute(h)))

\* The value of the cookie of the given name in a list of Set-Cookie
\* headers: that of the first header whose leading attribute has the name.
CookieOf(headers, name) ==
  LET matching == { i \in 1..Len(headers) : HasLeadingName(headers[i], name) }
  IN  IF matching = {} THEN Undefined
      ELSE Some(LeadingValue(headers[CHOOSE i \in matching :
                                       \A j \in matching : i <= j]))
SendsNothing(p) == \A j \in Steps(p) : Did(p)[j].e # "send"
SendsNothingAfter(p, i) ==
  \A j \in Steps(p) : j > i => Did(p)[j].e # "send"

\* C1: a request is handed to the transport at most twice (original and one
\* replay), and when the replay fails, that failure is what the call raises,
\* with no further login or replay.
C1_ReplayedAtMostOnce ==
  \A p \in DOMAIN ev :
    /\ \A i \in Steps(p) :
         Did(p)[i].e = "send" => Did(p)[i].cfg.sends <= 2
    /\ \A i \in Steps(p) :
         ( /\ Did(p)[i].e = "settle"
           /\ Did(p)[i].cfg.retried
           /\ Did(p)[i].out.t = "err" )
         => /\ SendsNothing(p)
            /\ op[p] = "done"
            /\ result[p].state = "MindsDbError"
            /\ result[p].out = Did(p)[i].out

\* C1 witness: a query whose replay failed too, settled with the replay's
\* error after two sends.
C1_Witness ==
  \E p \in DOMAIN ev :
    /\ op[p] = "done"
    /\ result[p].out.t = "err"
    /\ result[p].out.cfg.kind = "data"
    /\ result[p].out.cfg.retried
    /\ result[p].out.cfg.sends = 2
    /\ result[p].out.status = Unauthorized

\* C2: when every request of a call, the login requests included, is
\* answered with 401, the call needs no more transport calls than the
\* retry-once design allows (the request, one login, one replay).
C2_BoundedAgainst401 ==
  \A p \in DOMAIN ev :
    op[p] \in {"query", "projects"} /\ all401[p] => calls[p] <= 3

\* C3: a request that failed with 401 and whose replay was answered with 200
\* gives the caller that response (the call resolves, unless the response
\* has no data for runQuery to read), after exactly two sends of the request
\* and exactly one login request.
C3_OneLoginOneReplay ==
  \A p \in DOMAIN ev :
    ( /\ op[p] = "done"
      /\ Len(ev[p]) > 0
      /\ Did(p)[1].e = "settle"
      /\ Did(p)[1].cfg.kind = "data"
      /\ Did(p)[1].cfg.retried
      /\ Did(p)[1].out.t = "resp" )
    => /\ ~Returns(atCall[p].kind, result[p].out).thrown
            => result[p].state = "resolved"
       /\ result[p].out = Did(p)[1].out
       /\ result[p].out.status = Ok
       /\ result[p].out.cfg.sends = 2
       /\ logins[p] = 1

\* A call of handleReauthentication in the latest run: the event of its
\* decision (ret "false": returned false; "login": sent the login request).
IsCall(p, i) == Did(p)[i].e = "hr" /\ Did(p)[i].ret \in {"false", "login"}
AuthStatus(status) == status \in {Unauthorized, Forbidden}

\* C4: while no session has ever been set, handleReauthentication returns
\* false and sends nothing, whatever the error (401 and 403 included).
C4_NeverSetNoReauthentication ==
  \A p \in DOMAIN ev : \A i \in Steps(p) :
    IsCall(p, i) /\ ~Did(p)[i].everSet
    => Did(p)[i].ret = "false" /\ SendsNothingAfter(p, i)

\* C4 witness: a 401 reached handleReauthentication before any session
\* was set, and it returned false.
C4_Witness ==
  \E p \in DOMAIN ev : \E i \in Steps(p) :
    /\ IsCall(p, i)
    /\ ~Did(p)[i].everSet
    /\ Did(p)[i].error.status = Unauthorized
    /\ Did(p)[i].ret = "false"

\* C5: with a session set, handleReauthentication given a 401 or 403 sends
\* a login request, its only one; when the login it awaits is answered with
\* a response it returns true, the session then being the session cookie
\* of that response, and exactly one login request was sent since it was
\* called.
C5_ReauthenticatesOnce ==
  \A p \in DOMAIN ev : \A i \in Steps(p) :
    /\ ( IsCall(p, i) /\ Did(p)[i].sessionSet
         /\ AuthStatus(Did(p)[i].error.status) )
       => /\ Did(p)[i].ret = "login"
          /\ i + 1 = Len(Did(p))
          /\ Did(p)[i + 1].e = "send"
          /\ Did(p)[i + 1].cfg.kind = "login"
          /\ Did(p)[i + 1].cfg.sends = 1
          /\ ~Did(p)[i + 1].replay
    /\ ( /\ Did(p)[i].e = "settle"
         /\ Did(p)[i].cfg.kind = "login"
         /\ Did(p)[i].out.t = "resp"
         /\ op[p] # "done" )
       => /\ Did(p)[i + 1].e = "hr"
          /\ Did(p)[i + 1].ret = "true"
          /\ Did(p)[i + 1].cookies = Did(p)[i].out.cookies
    /\ ( Did(p)[i].e = "hr" /\ Did(p)[i].ret = "true" )
       => /\ AuthStatus(Did(p)[i].error.status)
          /\ Did(p)[i].session = CookieOf(Did(p)[i].cookies, <<"session">>)
          /\ session = Did(p)[i].session
          /\ Did(p)[i].loginsSince = 1

\* C6: for an error without a response, or with a status other than 401
\* and 403, handleReauthentication returns false, sends no login, leaves
\* the session and the credentials as they were, and the failed request is
\* rethrown, not replayed.
C6_OtherErrorsPassThrough ==
  \A p \in DOMAIN ev : \A i \in Steps(p) :
    IsCall(p, i) /\ ~AuthStatus(Did(p)[i].error.status)
    => /\ Did(p)[i].ret = "false"
       /\ Did(p)[i].session = Did(p)[i].sessionBefore
       /\ Did(p)[i].creds = Did(p)[i].credsBefore
       /\ session = Did(p)[i].sessionBefore
       /\ <<user, password, managed>> = Did(p)[i].credsBefore
       /\ SendsNothingAfter(p, i)
       /\ i < Len(Did(p))
       /\ Did(p)[i + 1].e = "retry"
       /\ Did(p)[i + 1].res = "throw"
       /\ ~Did(p)[i + 1].errOut.cfg.retried

\* C6 witness: a 500 and a failure without response both reached
\* handleReauthentication while a session was set.
C6_Witness ==
  \E p \in DOMAIN ev : \E i \in Steps(p) :
    /\ IsCall(p, i)
    /\ Did(p)[i].sessionSet
    /\ Did(p)[i].error.status \in {InternalServerError, NoResponse}
    /\ Did(p)[i].ret = "false"
    /\ op[p] = "done"
    /\ result[p].out.cfg.sends = 1

\* C7: given an error without request configuration, or when
\* handleReauthentication returns false, retryUnauthenticatedRequest
\* rethrows the very error it was given and sends nothing.
C7_RethrowsUnchanged ==
  \A p \in DOMAIN ev : \A i \in Steps(p) :
    /\ ( Did(p)[i].e = "settle" /\ Did(p)[i].out.cfg.kind = "none" )
       => /\ SendsNothing(p)
          /\ i < Len(Did(p)) =>
               /\ Did(p)[i + 1].e = "retry"
               /\ Did(p)[i + 1].res = "throw"
               /\ Did(p)[i + 1].errIn = Did(p)[i].out
               /\ Did(p)[i + 1].errOut = Did(p)[i].out
          /\ op[p] = "done"
          /\ result[p].out = Did(p)[i].out
    /\ ( IsCall(p, i) /\ Did(p)[i].ret = "false" )
       => /\ i < Len(Did(p))
          /\ Did(p)[i + 1].e = "retry"
          /\ Did(p)[i + 1].res = "throw"
          /\ Did(p)[i + 1].errIn = Did(p)[i].error
          /\ Did(p)[i + 1].errOut = Did(p)[i].error
          /\ SendsNothingAfter(p, i)

\* C7 (second case reached too): an error without request configuration
\* went through the interceptor and is the error the query ended with.
C7_NoConfigReached ==
  \E p \in DOMAIN ev :
    /\ Len(Did(p)) > 1
    /\ Did(p)[1].e = "settle"
    /\ Did(p)[1].cfg.kind = "data"
    /\ Did(p)[1].out.cfg.kind = "none"
    /\ Did(p)[2].e = "retry"
    /\ result[p].out = Did(p)[1].out

\* C7 witness: a 500 for which handleReauthentication returned false was
\* rethrown and is the error the query ended with.
C7_Witness ==
  \E p \in DOMAIN ev : \E i \in Steps(p) :
    /\ IsCall(p, i)
    /\ Did(p)[i].ret = "false"
    /\ Did(p)[i].sessionSet
    /\ i < Len(Did(p))
    /\ Did(p)[i + 1].e = "retry"
    /\ op[p] = "done"
    /\ result[p].state = "MindsDbError"
    /\ result[p].out = Did(p)[i].error
    /\ result[p].out.cfg.kind = "data"

\* C8: a replay is sent right after the re-login returned; it carries the
\* session that re-login stored in its Cookie header, has the retried marker
\* set, and has the method, URL and body of the request that failed.
C8_ReplayIsTheSameRequest ==
  \A p \in DOMAIN ev : \A i \in Steps(p) :
    ( Did(p)[i].e = "send" /\ (Did(p)[i].replay \/ Did(p)[i].cfg.retried) )
    => /\ i > 1
       /\ Did(p)[i - 1].e = "hr"
       /\ Did(p)[i - 1].ret = "true"
       /\ Did(p)[i].replay
       /\ Did(p)[i].cfg.retried
       /\ Did(p)[i].cfg.cookie = Some(SessionCookie(Did(p)[i - 1].session))
       /\ Did(p)[i].orig = Did(p)[i - 1].error.cfg
       /\ ~Did(p)[i].orig.retried
       /\ Did(p)[i].cfg.kind = Did(p)[i].orig.kind
       /\ Did(p)[i].cfg.method = Did(p)[i].orig.method
       /\ Did(p)[i].cfg.url = Did(p)[i].orig.url
       /\ Did(p)[i].cfg.data = Did(p)[i].orig.data
       /\ Did(p)[i].cfg.sends = 2

\* C8 witness: the replay of a query, sent with the cookie session=t2 that
\* the re-login stored in place of t1.
C8_Witness ==
  \E p \in DOMAIN ev : \E i \in Steps(p) :
    /\ Did(p)[i].e = "send"
    /\ Did(p)[i].replay
    /\ Did(p)[i].cfg.kind = "data"
    /\ Did(p)[i].orig.cookie = Some(<<"session", "=", "t1">>)
    /\ Did(p)[i].cfg.cookie = Some(<<"session", "=", "t2">>)
    /\ session = Some(<<"t2">>)

\* C9: every API request the SDK sends (built with getBaseRequestConfig),
\* its replay after reauthentication included, carries the header
\* Cookie: session=<token> exactly when a session token is set at the
\* moment it is sent, and none carries a cookie built from an unset session.
C9_CookieExactlyWhenSessionSet ==
  \A p \in DOMAIN ev : \A i \in Steps(p) :
    ( Did(p)[i].e = "send" /\ Did(p)[i].cfg.kind = "data" )
    => /\ Did(p)[i].cfg.cookie.def <=> Truthy(Did(p)[i].session)
       /\ Did(p)[i].cfg.cookie.def
            => Did(p)[i].cfg.cookie.val
                 = <<"session", "=">> \o Did(p)[i].session.val

\* C10: the session stays unset until a login has been answered with a
\* response, and once set it is never unset again.
C10_SessionNeverUnset ==
  [][ /\ Truthy(session) => Truthy(session')
      /\ (~Truthy(session) /\ Truthy(session'))
           => \E p \in DOMAIN ev :
                /\ Len(ev'[p]) > 0
                /\ ev'[p][1].e = "settle"
                /\ ev'[p][1].cfg.kind = "login"
                /\ ev'[p][1].out.t = "resp" ]_vars

\* C11: authenticate stores the user, password and managed flag it was given
\* whether or not its login request succeeds; when the login fails, the call
\* raises and the session is the one stored before the call.
C11_FailedLoginKeepsSession ==
  \A p \in DOMAIN ev :
    atCall[p].kind = "connect" /\ atCall[p].login
    => /\ user = atCall[p].user
       /\ password = atCall[p].password
       /\ managed = atCall[p].managed
       /\ (op[p] = "done" /\ result[p].out.t = "err")
            => /\ result[p].state = "MindsDbError"
               /\ session = atCall[p].session

\* C12: during a call the stored user, password and flag are those of the
\* latest authenticate call (the ones connect was given, or for a query or
\* a list of projects the ones stored when it started), and every login handleReauthentication
\* sends posts them to /api/login when managed and to /cloud/login otherwise.
C12_ReloginWithStoredCredentials ==
  \A p \in DOMAIN ev :
    /\ ( atCall[p].kind \in {"query", "projects"}
         \/ (atCall[p].kind = "connect" /\ atCall[p].login) )
       => /\ user = atCall[p].user
          /\ password = atCall[p].password
          /\ managed = atCall[p].managed
    /\ \A i \in Steps(p) :
         ( Did(p)[i].e = "hr" /\ Did(p)[i].ret = "login" )
         => /\ Did(p)[i].credsBefore
                 = <<atCall[p].user, atCall[p].password, atCall[p].managed>>
            /\ i < Len(Did(p))
            /\ Did(p)[i + 1].e = "send"
            /\ Did(p)[i + 1].cfg.method = "POST"
            /\ Did(p)[i + 1].cfg.url
                 = baseURL \o (IF atCall[p].managed THEN <<"/api/login">>
                                                   ELSE <<"/cloud/login">>)
            /\ Did(p)[i + 1].cfg.data
                 = <<"email">> \o atCall[p].user
                   \o <<"username">> \o atCall[p].user
                   \o <<"password">> \o atCall[p].password

\* C12 witness: a query that failed with 401 after a managed connect as bob
\* sent its re-login, with bob's credentials, to /api/login.
C12_Witness ==
  \E p \in DOMAIN ev : \E i \in Steps(p) :
    /\ atCall[p].kind = "query"
    /\ Did(p)[i].e = "hr"
    /\ Did(p)[i].ret = "login"
    /\ Did(p)[i].credsBefore = << <<"bob">>, <<"pw-b">>, TRUE >>
    /\ Did(p)[i + 1].e = "send"
    /\ Did(p)[i + 1].cfg.url
         = BASE_CLOUD_API_ENDPOINT \o <<"/api/login">>

\* C13: reauthentications are not shared between concurrent requests.  Every
\* request that fails with 401 or 403 while a session is set sends a login
\* request of its own, whatever logins other callers have in flight, and
\* every pending reauthentication awaits its own login request.
C13_EachFailureLogsIn ==
  \A p \in DOMAIN ev :
    /\ \A i \in Steps(p) :
         ( IsCall(p, i) /\ Did(p)[i].sessionSet
           /\ AuthStatus(Did(p)[i].error.status) )
         => /\ Did(p)[i].ret = "login"
            /\ i + 1 = Len(Did(p))
            /\ Did(p)[i + 1].e = "send"
            /\ Did(p)[i + 1].cfg.kind = "login"
            /\ Did(p)[i + 1].cfg.sends = 1
            /\ Top(Machine(p)).cfg = Did(p)[i + 1].cfg
            /\ Top(Machine(p)).stage = 0
    /\ \A k \in 1..Len(stack[p]) :
         stack[p][k].wait = "login"
         => /\ k < Len(stack[p])
            /\ stack[p][k + 1].cfg.kind = "login"

\* C13 witness: two queries sent with the session t1 were both answered 401,
\* and the two logins sent for them are in flight at the same time.
C13_Witness ==
  /\ DOMAIN stack = Callers
  /\ \A p \in Callers :
       /\ Len(stack[p]) = 2
       /\ stack[p][1].cfg.kind = "data"
       /\ stack[p][1].cfg.cookie = Some(<<"session", "=", "t1">>)
       /\ stack[p][1].out.status = Unauthorized
       /\ stack[p][1].wait = "login"
       /\ stack[p][2].cfg.kind = "login"
       /\ stack[p][2].stage = 0
       /\ logins[p] = 1

\* C14: getCookieValue returns the value of the leading attribute of the
\* first header, in list order, whose leading attribute has exactly the
\* requested name, and undefined when no header has; a name that is only a
\* later attribute of a header does not count.
C14_FirstLeadingMatch ==
  ( calc.fn = "getCookieValue" /\ calc.done )
  => LET headers == calc.in.allCookies
         matching == { i \in 1..Len(headers) :
                         HasLeadingName(headers[i], calc.in.cookieKey) }
     IN  IF matching = {}
           THEN calc.out = Undefined
           ELSE LET first == CHOOSE i \in matching :
                               \A j \in matching : i <= j
                IN  calc.out = Some(LeadingValue(headers[first]))

\* The column names and data rows of a raw response, absent ones read as
\* empty lists.
NamesOf(response) ==
  IF response.column_names.def THEN response.column_names.val ELSE <<>>
DataOf(response) == IF response.data.def THEN response.data.val ELSE <<>>

\* C15 as stated: columnNames are the response's column names lower-cased in
\* order, there is one row per data row in order, and row i maps the
\* lower-cased name of every column j to data[i][j] (both undefined when
\* the row has no field j).
C15_RowsZipColumnsWithData ==
  ( calc.fn = "makeQueryResult" /\ calc.done )
  => LET names == NamesOf(calc.in)
         data == DataOf(calc.in)
     IN  /\ Len(calc.out.columnNames) = Len(names)
         /\ \A j \in 1..Len(names) :
              calc.out.columnNames[j] = toLowerCase(names[j])
         /\ Len(calc.out.rows) = Len(data)
         /\ \A i \in 1..Len(data) : \A j \in 1..Len(names) :
              Get(calc.out.rows[i], toLowerCase(names[j])) = At(data[i], j)

\* The name under which the field at position k of a data row is stored:
\* the lower-cased name of column k, and 'undefined' past the last column.
StoredUnder(names, k) ==
  IF k \in 1..Len(names) THEN toLowerCase(names[k]) ELSE "undefined"

\* C15 as amended: the same, except that row i maps the lower-cased name of
\* column j to the last field of data row i that is stored under that name
\* (data[i][j] itself when no later field is), and to nothing when the row
\* has no such field.
C15_LastColumnOfANameWins ==
  ( calc.fn = "makeQueryResult" /\ calc.done )
  => LET names == NamesOf(calc.in)
         data == DataOf(calc.in)
         Under(i, j) == { k \in 1..Len(data[i]) :
                           StoredUnder(names, k) = toLowerCase(names[j]) }
         Last(i, j) == CHOOSE k \in Under(i, j) : \A l \in Under(i, j) : l <= k
     IN  /\ Len(calc.out.columnNames) = Len(names)
         /\ \A j \in 1..Len(names) :
              calc.out.columnNames[j] = toLowerCase(names[j])
         /\ Len(calc.out.rows) = Len(data)
         /\ \A i \in 1..Len(data) : \A j \in 1..Len(names) :
              Get(calc.out.rows[i], toLowerCase(names[j]))
                = IF Under(i, j) = {} THEN Undefined
                  ELSE Some(data[i][Last(i, j)])

\* C15 witness: two rows under the columns ID and id come back as two rows
\* with the one key id, which holds the second field.
C15_Witness ==
  /\ calc.fn = "makeQueryResult"
  /\ calc.done
  /\ NamesOf(calc.in) = <<"ID", "id">>
  /\ DataOf(calc.in) = << <<"1", "2">>, <<"2", "1">> >>
  /\ calc.out.columnNames = <<"id", "id">>
  /\ calc.out.rows = << [id |-> "2"], [id |-> "1"] >>

\* C16: every query result has no rows when its type is error, and has an
\* error message only when its type is error.
C16_ErrorResultShape ==
  ( calc.fn = "makeQueryResult" /\ calc.done )
  => /\ calc.out.type = Some("error") => calc.out.rows = <<>>
     /\ calc.out.error_message.def => calc.out.type = Some("error")

\* text occurs in message.
Contains(message, text) ==
  \E i \in 0..(Len(message) - Len(text)) :
    SubSeq(message, i + 1, i + Len(text)) = text

\* C17: runQuery sends one POST with the body {query: statement} to
\* {base}/api/sql/query and sends nothing more once its request has failed;
\* the MindsDbError it then raises tells the kind of failure (the status
\* code with a hint, that no response came, or the message of an error
\* raised before the request was made) and names the failing URL.
C17_OnePostAndClassifiedError ==
  \A p \in DOMAIN ev :
    atCall[p].kind = "query"
    => /\ ( Len(Did(p)) > 0 /\ Did(p)[1].e = "send" )
          => /\ Len(Did(p)) = 1
             /\ Did(p)[1].cfg.method = "POST"
             /\ Did(p)[1].cfg.url = baseURL \o <<"/api/sql/query">>
             /\ \E query \in Statements :
                  Did(p)[1].cfg.data = <<"query">> \o query
             /\ Did(p)[1].cfg.sends = 1
             /\ calls[p] = 1
       /\ ( op[p] = "done" /\ result[p].out.t = "err" )
          => /\ SendsNothing(p)
             /\ result[p].state = "MindsDbError"
             /\ result[p].error.name = "MindsDbError"
             /\ IF result[p].out.status # NoResponse
                  THEN /\ Contains(result[p].error.message,
                                   <<ToString(result[p].out.status)>>)
                       /\ Len(result[p].error.message) > 3
                  ELSE IF result[p].out.request
                    THEN Contains(result[p].error.message,
                                  <<"The request was made but no response was received. Something may be wrong on our end. Please try again.">>)
                    ELSE Contains(result[p].error.message,
                                  result[p].out.message)
             /\ Contains(result[p].error.message,
                         baseURL \o <<"/api/sql/query">>)

\* C18: a resource-client operation whose statement came back as a result of
\* type error with an error message raises an error carrying that message;
\* it does not return normally.
C18_StatementErrorIsRaised ==
  ( /\ calc.fn = "resource"
    /\ calc.done
    /\ calc.in.sqlQueryResult.type = Some("error")
    /\ Truthy(calc.in.sqlQueryResult.error_message) )
  => /\ calc.out.kind = "raised"
     /\ calc.out.error.name = "MindsDbError"
     /\ calc.out.error.message = calc.in.sqlQueryResult.error_message.val

\* C19: connect against the Cloud endpoint (without the managed flag) sends
\* exactly one login POST, to {base}/cloud/login with the given user and
\* password, and when it resolves the session is the value of the session
\* cookie of the login response.
C19_CloudConnectLogsInOnce ==
  \A p \in DOMAIN ev :
    ( /\ atCall[p].kind = "connect"
      /\ isMindsDbCloudEndpoint(baseURL)
      /\ ~atCall[p].managed )
    => /\ atCall[p].login
       /\ logins[p] = 1
       /\ calls[p] = 1
       /\ ( Len(Did(p)) > 0 /\ Did(p)[1].e = "send" )
          => /\ Len(Did(p)) = 1
             /\ Did(p)[1].cfg.method = "POST"
             /\ Did(p)[1].cfg.url = baseURL \o <<"/cloud/login">>
             /\ Did(p)[1].cfg.data
                  = <<"email">> \o atCall[p].user
                    \o <<"username">> \o atCall[p].user
                    \o <<"password">> \o atCall[p].password
       /\ ( op[p] = "done" /\ result[p].state = "resolved" )
          => session = CookieOf(result[p].out.cookies, <<"session">>)

\* C20: connect with a host that is not a MindsDB Cloud endpoint (a custom
\* host or a local instance) sends no login request and no other request.
C20_NoLoginOffCloud ==
  \A p \in DOMAIN ev :
    ( atCall[p].kind = "connect" /\ ~isMindsDbCloudEndpoint(baseURL) )
    => /\ ~atCall[p].login
       /\ logins[p] = 0
       /\ calls[p] = 0
       /\ SendsNothing(p)
       /\ stack[p] = <<>>

\* C21: a finished connect either resolved or rejected with a MindsDbError.
\* It rejected with a MindsDbError carrying a message whenever its last
\* request failed, and it resolved only when it needed no login (and sent
\* nothing) or when its login request, or the replay of it, was answered
\* with a 2xx response.
C21_ConnectRejectsWithMindsDbError ==
  \A p \in DOMAIN ev :
    ( atCall[p].kind = "connect" /\ op[p] = "done" )
    => /\ result[p].state \in {"resolved", "MindsDbError"}
       /\ result[p].out.t = "err"
            => /\ result[p].state = "MindsDbError"
               /\ result[p].error.name = "MindsDbError"
               /\ result[p].error.message # <<>>
       /\ result[p].state = "resolved"
            => IF atCall[p].login
                 THEN /\ result[p].out.t = "resp"
                      /\ result[p].out.status = Ok
                      /\ result[p].out.cfg.kind = "login"
                      /\ result[p].error = NoError
                 ELSE /\ result[p].out = NoOutcome
                      /\ calls[p] = 0
                      /\ logins[p] = 0

\* C21 witness: a connect whose login was refused with 401 by every answer
\* has finished, rejected with a MindsDbError.
C21_Witness ==
  \E p \in DOMAIN ev :
    /\ atCall[p].kind = "connect"
    /\ op[p] = "done"
    /\ atCall[p].login
    /\ result[p].out.t = "err"
    /\ result[p].out.status = Unauthorized
    /\ result[p].out.cfg.kind = "login"
    /\ result[p].state = "MindsDbError"

\* The identifiers a call of a statement-generating operation supplies.
IdentifiersOf(in) ==
  IF in.operation \in {"createKnowledgeBase", "deleteKnowledgeBase"}
    THEN {in.name, in.project}
    ELSE {in.name}

\* An identifier as a delimited token: between backticks, with each backtick
\* of its own doubled.
DelimitedIdentifier(id) ==
  <<Backtick>> \o ReplaceAll(id, Backtick, <<Backtick, Backtick>>)
               \o <<Backtick>>

\* C22: in the statement a resource client generates, every identifier the
\* caller supplied appears as a delimited token: between backticks, with its
\* own backticks doubled; none appears raw.
C22_IdentifiersAreEscaped ==
  ( /\ calc.fn = "statement"
    /\ calc.done
    /\ calc.in.operation \in IdentifierOperations )
  => \A id \in IdentifiersOf(calc.in) :
       Contains(calc.out, DelimitedIdentifier(id))

\* What the text after the opening quote of a string literal reads as: the
\* characters up to the first quote without a backslash before it, each
\* backslash giving the character after it; nothing, unless that quote is
\* the last character of the text.
RECURSIVE ReadBody(_)
ReadBody(s) ==
  IF s = <<>> THEN Undefined
  ELSE IF s[1] = SingleQuote
    THEN IF Len(s) = 1 THEN Some(<<>>) ELSE Undefined
  ELSE IF s[1] = Backslash
    THEN IF Len(s) < 2 THEN Undefined
         ELSE LET rest == ReadBody(SubSeq(s, 3, Len(s)))
              IN  IF rest.def THEN Some(<<s[2]>> \o rest.val) ELSE Undefined
  ELSE LET rest == ReadBody(Tail(s))
       IN  IF rest.def THEN Some(<<s[1]>> \o rest.val) ELSE Undefined

\* What a text reads as when it is one single-quoted string literal.
ReadLiteral(lit) ==
  IF lit # <<>> /\ lit[1] = SingleQuote THEN ReadBody(Tail(lit))
  ELSE Undefined

\* The statement KnowledgeBase.insert sends for one record of one column,
\* around the literal of its value.
InsertHead(in) ==
  <<"INSERT INTO ">> \o in.tableName \o <<" (">> \o in.records[1][1][1]
  \o <<") VALUES ", "(">>
InsertTail == <<")", ";">>

\* C23: a string value quoted into a statement reads back as itself, quotes
\* and backslashes included: the literal mysql.escape makes of it, and the
\* literal KnowledgeBase.insert puts into its statement for a record of one
\* string column.
C23_QuotedStringsRoundTrip ==
  /\ ( calc.fn = "escape" /\ calc.done /\ calc.in.val.type = "string" )
     => ReadLiteral(calc.out) = Some(calc.in.val.val)
  /\ ( /\ calc.fn = "insert"
       /\ calc.done
       /\ Len(calc.in.records) = 1
       /\ Len(calc.in.records[1]) = 1
       /\ calc.in.records[1][1][2].type = "string" )
     => LET head == InsertHead(calc.in)
            n == Len(calc.out)
        IN  /\ n >= Len(head) + Len(InsertTail)
            /\ SubSeq(calc.out, 1, Len(head)) = head
            /\ SubSeq(calc.out, n - 1, n) = InsertTail
            /\ ReadLiteral(SubSeq(calc.out, Len(head) + 1, n - 2))
                 = Some(calc.in.records[1][1][2].val)

\* The keyword each line of a statement starts with.
LineKeywords(statement) ==
  LET lines == Split(statement, "\n")
  IN  [i \in 1..Len(lines) |-> IF lines[i] = <<>> THEN "" ELSE lines[i][1]]

\* The keywords of the training clauses, in their fixed order.
ClauseKeywords ==
  <<"CREATE MODEL ", "FROM ", "(", "PREDICT ", "GROUP BY ", "ORDER BY ",
    "WINDOW ", "HORIZON ", "USING">>

\* Whether the clause of a keyword is asked for by the options.
ClauseIsSet(keyword, o) ==
  CASE keyword = "FROM " -> Truthy(o.integration)
    [] keyword = "(" -> Truthy(o.select)
    [] keyword = "GROUP BY " -> Truthy(o.groupBy)
    [] keyword = "ORDER BY " -> Truthy(o.orderBy)
    [] keyword \in {"WINDOW ", "HORIZON "} ->
         TruthyNumber(o.window) /\ TruthyNumber(o.horizon)
    [] keyword = "USING" -> o.using.def
    [] OTHER -> TRUE

\* C24: the lines of the statement trainModel generates start with the
\* keywords CREATE MODEL, FROM, (, PREDICT, GROUP BY, ORDER BY, WINDOW,
\* HORIZON, USING in this order, each optional one present exactly when its
\* option is set, WINDOW and HORIZON only when both options are given; the
\* lines after USING are its parameters, one identifier each.
C24_TrainingClausesInOrder ==
  ( calc.fn = "trainModel" /\ calc.done )
  => LET o == calc.in.trainingOptions
         IsExpected(keyword) == ClauseIsSet(keyword, o)
         expected == SelectSeq(ClauseKeywords, IsExpected)
         actual == LineKeywords(calc.out)
     IN  /\ Len(actual) >= Len(expected)
         /\ SubSeq(actual, 1, Len(expected)) = expected
         /\ \A i \in (Len(expected) + 1)..Len(actual) :
              /\ o.using.def
              /\ actual[i] \in {Backtick, ""}
         /\ (\E i \in 1..Len(actual) : actual[i] \in {"WINDOW ", "HORIZON "})
              => o.window.def /\ o.horizon.def

\* C24 witness: trainModel was called with every option set and generated
\* a statement of all nine clause lines and two parameter lines.
C24_Witness ==
  /\ calc.fn = "trainModel"
  /\ calc.done
  /\ \A keyword \in {"FROM ", "(", "GROUP BY ", "ORDER BY ", "WINDOW ",
                     "USING"} :
       ClauseIsSet(keyword, calc.in.trainingOptions)
  /\ Len(calc.in.trainingOptions.using.val) = 2
  /\ Len(LineKeywords(calc.out)) = 11

\* The queries added to a job by the calls made on it, in the order of the
\* calls, and the value the last call of a setter gave.
AddedQueries(history) ==
  LET Adds(c) == c.method = "addQuery" /\ c.arg.type = "string"
      adds == SelectSeq(history, Adds)
  IN  [i \in 1..Len(adds) |-> adds[i].arg.val]
LatestSetting(history, method) ==
  LET Sets(c) == c.method = method
      sets == SelectSeq(history, Sets)
  IN  IF sets = <<>> THEN Undefined ELSE Some(sets[Len(sets)].arg.val)

\* C25: create() raises a MindsDbError without calling createJob exactly
\* when no query was added to the job before; otherwise it calls createJob
\* once, with the job's name and project, the queries added before the call
\* in the order of their addition joined by ";\n", and the latest value
\* given to each setter before the call, and it ends as that call ends,
\* whatever was done to the job meanwhile: it returns when createJob
\* resolves and raises the error createJob rejected with.
C25_CreateNeedsAQuery ==
  ( calc.fn = "job" /\ calc.in # <<>> )
  => LET n == Len(calc.in)
         last == calc.in[n]
         out == calc.out
         at == IF last.method = "settle" THEN last.arg.of ELSE n
         before == SubSeq(calc.in, 1, at - 1)
         added == AddedQueries(before)
         Expected ==
           /\ out.createJob.name = <<"my_job">>
           /\ out.createJob.project = <<"mindsdb">>
           /\ out.createJob.query = Join(added, <<";", "\n">>)
           /\ out.createJob.start = LatestSetting(before, "setStart")
           /\ out.createJob.end = LatestSetting(before, "setEnd")
           /\ out.createJob.every = LatestSetting(before, "setEvery")
           /\ out.createJob.ifCondition
                = LatestSetting(before, "setIfCondition")
     IN  /\ last.method = "create"
              => /\ (added = <<>>)
                      <=> ( /\ out.kind = "raised"
                            /\ out.error.name = "MindsDbError"
                            /\ out.calls = 0 )
                 /\ (added = <<>>) <=> (out.calls = 0)
                 /\ added = <<>>
                      => out.error.message = <<"No queries added to the job.">>
                 /\ added # <<>>
                      => /\ out.kind = "pending"
                         /\ out.calls = 1
                         /\ Expected
                         /\ \E k \in 1..Len(calc.pending) :
                              calc.pending[k].at = n
         /\ last.method = "settle"
              => /\ calc.in[at].method = "create"
                 /\ added # <<>>
                 /\ out.calls = 0
                 /\ Expected
                 /\ (out.kind = "returned") <=> (last.arg.error = NoError)
                 /\ (out.kind = "raised") <=> (last.arg.error # NoError)
                 /\ out.error = last.arg.error
                 /\ \A i \in 1..(n - 1) :
                      ~( calc.in[i].method = "settle"
                         /\ calc.in[i].arg.of = at )
                 /\ \A k \in 1..Len(calc.pending) : calc.pending[k].at # at

\* C25 witness: a job was given two queries and a setting, create() called
\* createJob with both queries joined, and returned when createJob
\* resolved.
C25_Witness ==
  /\ calc.fn = "job"
  /\ Len(calc.in) = 5
  /\ calc.in[4].method = "create"
  /\ calc.in[5].method = "settle"
  /\ Len(AddedQueries(calc.in)) = 2
  /\ calc.out.kind = "returned"
  /\ Len(calc.out.createJob.query) = 4

\* C25 witness of the case in which createJob rejects after more was done
\* to the job: create() called createJob with the one query added before
\* it, a second query was added and the start set while it was pending,
\* and it raised the MindsDbError that createJob rejected with.
C25_WitnessRejected ==
  /\ calc.fn = "job"
  /\ Len(calc.in) = 5
  /\ calc.in[2].method = "create"
  /\ calc.in[5].method = "settle"
  /\ calc.in[5].arg.of = 2
  /\ Len(calc.out.job.queries) = 2
  /\ calc.out.job.start.def
  /\ calc.out.createJob.query = <<"SELECT 1">>
  /\ ~calc.out.createJob.start.def
  /\ calc.out.kind = "raised"
  /\ calc.out.error = MindsDbError(<<"Job already exists">>)

\* C25 witness of two create() calls pending at once, the second settled
\* first.
C25_WitnessOverlapping ==
  /\ calc.fn = "job"
  /\ Len(calc.in) > 2
  /\ calc.in[Len(calc.in)].method = "settle"
  /\ \E k \in 1..Len(calc.pending) :
       calc.pending[k].at < calc.in[Len(calc.in)].arg.of

\* C25 witness of the other case: create() on a job without queries, whose
\* only addQuery was refused, raised.
C25_WitnessRaised ==
  /\ calc.fn = "job"
  /\ Len(calc.in) > 1
  /\ calc.in[Len(calc.in)].method = "create"
  /\ \E i \in 1..Len(calc.in) : calc.in[i].method = "addQuery"
  /\ calc.out.kind = "raised"
  /\ calc.out.calls = 0

\* C26: with requests of several callers in flight, each request is replayed
\* at most once, and its replay carries the session token that a login
\* answered after the request's failure stored: the value of the session
\* cookie of that answer, rather than the token the request was rejected
\* with or a cookie made of an unset session.
C26_ReplayCarriesFreshToken ==
  \A p \in DOMAIN ev :
    /\ calls[p] - logins[p] <= 2
    /\ \A i \in Steps(p) :
         ( /\ Did(p)[i].e = "send"
           /\ Did(p)[i].replay
           /\ Did(p)[i].cfg.kind = "data" )
         => /\ Did(p)[i].cfg.sends = 2
            /\ \E j \in 1..(i - 1) :
                 /\ Did(p)[j].e = "settle"
                 /\ Did(p)[j].cfg.kind = "login"
                 /\ Did(p)[j].out.t = "resp"
                 /\ LET token == CookieOf(Did(p)[j].out.cookies,
                                          <<"session">>)
                    IN  /\ Truthy(token)
                        /\ Did(p)[i].cfg.cookie
                             = Some(<<"session", "=">> \o token.val)

\* C27: every connect installs one more retry interceptor, and however many
\* are installed, a request that was answered 401 and whose replay succeeded
\* has sent exactly one login and one replay (three requests in all), and
\* one whose replay failed has replayed once.
C27_OneLoginOneReplay ==
  /\ [][ \A p \in DOMAIN ev :
           ( op[p] = "idle" /\ op'[p] # "idle"
             /\ atCall'[p].kind = "connect" )
           => interceptors' = interceptors + 1 ]_vars
  /\ [] ( \A p \in DOMAIN ev :
            ( /\ atCall[p].kind \in {"query", "projects"}
              /\ op[p] = "done"
              /\ result[p].out.cfg.kind = "data"
              /\ result[p].out.cfg.retried )
            => /\ result[p].out.cfg.sends = 2
               /\ calls[p] - logins[p] = 2
               /\ result[p].out.t = "resp"
                    => /\ logins[p] = 1
                       /\ calls[p] = 3 )

\* Whether the SDK is connected to a local instance.
ConnectedLocally ==
  isLocalEndpoint(baseURL) /\ ~isMindsDbCloudEndpoint(baseURL)

\* C28: once a connect to a local instance has resolved the session is
\* unset, whatever was connected before, and while the SDK is connected to
\* the local instance no request it sends carries a Cookie header and none
\* is a login.
C28_LocalHostGetsNoSession ==
  \A p \in DOMAIN ev :
    /\ ( /\ atCall[p].kind = "connect"
         /\ op[p] = "done"
         /\ ConnectedLocally )
       => /\ result[p].state = "resolved"
          /\ ~Truthy(session)
    /\ ConnectedLocally
       => \A i \in Steps(p) :
            Did(p)[i].e = "send"
            => /\ ~Did(p)[i].cfg.cookie.def
               /\ Did(p)[i].cfg.kind # "login"

\* C29: when the leading attribute of the first header has the requested
\* name, getCookieValue returns all the text of that header between its
\* first '=' and its first ';' (or its end), further '=' included.
C29_WholeValueIsReturned ==
  ( /\ calc.fn = "getCookieValue"
    /\ calc.done
    /\ calc.in.allCookies # <<>>
    /\ HasLeadingName(calc.in.allCookies[1], calc.in.cookieKey) )
  => LET h == calc.in.allCookies[1]
     IN  calc.out = Some(SubSeq(h, FirstIndex(h, "=") + 1,
                                FirstIndex(h, ";") - 1))

\* The elements of an array.
Elements(array) == { array[i] : i \in 1..Len(array) }

\* C30: the skills updateAgent asks to add and to remove turn the agent's
\* existing skills into exactly the updated ones: the two sets are disjoint,
\* the added are the updated ones that did not exist, the removed the
\* existing ones that are not updated; with updatedSkills omitted the
\* agent's skills stay as they are.
C30_SkillsDiffYieldsUpdated ==
  ( calc.fn = "updateAgent" /\ calc.done )
  => LET existing == Elements(calc.in.agent.skills)
         toAdd == Elements(calc.out.skills_to_add)
         toRemove == Elements(calc.out.skills_to_remove)
         after == (existing \ toRemove) \cup toAdd
     IN  /\ toAdd \cap toRemove = {}
         /\ IF calc.in.updatedSkills.def
              THEN LET updated == Elements(calc.in.updatedSkills.val)
                   IN  /\ toAdd = updated \ existing
                       /\ toRemove = existing \ updated
                       /\ after = updated
              ELSE after = existing

====
